---- MODULE Spec2Model ----
(***************************************************************************)
(* A model of the diff core: the linear-space Myers engine                 *)
(* (search_graph_recursive), the edit-script codec (canonize,              *)
(* codes_to_chunks) and the sequence diff (diff) built on them.            *)
(*                                                                         *)
(* Similarity ratios are fixed-point numbers: the ratio r of the source is *)
(* the integer r * RatioUnit here, so that 1 is RatioUnit and the default  *)
(* threshold 0.749 is MIN_RATIO.                                           *)
(***************************************************************************)
EXTENDS Integers, Sequences, FiniteSets, TLC

VARIABLES
    pc,         \* where the run stands: "start", "returned", "canonized"
    n, m,       \* the sizes of the grid
    oracle,     \* the similarity ratio of every cell (x, y)
    accept, max_cost, max_calls, eq_only,
    out,        \* the out argument: None or the buffer of codes
    cost,       \* the value the engine returned
    exit,       \* the return statement the outermost call of the engine took
    a, b,       \* the sequences given to diff
    min_ratio, rtn_diff, strict,
    result,     \* what diff returned or raised
    got_a, got_b,   \* what get_a() and get_b() of the returned Diff gave
    heap,       \* the list objects diff_nested is given: the items of every list
    max_depth,
    fill,       \* the value inflated arrays are filled with
    sig, dim,   \* the signature and the axis given to align_inflate
    in_row_diff,    \* the inner diffs given to common_diff_sig
    col_diff_sig,   \* the col_diff_sig argument of diff_aligned_2d, or None
    row_sig, col_sig,   \* the signatures of the rows and of the columns
    kernel,
    plain,      \* what to_plain() of the returned NumpyDiff gave
    self, consume_size,     \* the Diff get_coarse is called on, and its argument
    coarse,     \* what get_coarse returned
    context_size,   \* the argument of iter_important
    important,  \* the values iter_important yielded
    min_ratio2, max_cost2,  \* the budgets of a second call of diff
    result2,    \* what the second call returned
    codes_in,   \* the codes canonize was given
    n_calls,    \* the counter n_calls of the outermost call of the engine, at its return
    sub_calls,  \* the recursive calls the engine made, each with what it was given
    written     \* the indexes of out the engine wrote to, in the order of the writes

numpy_vars == <<fill, sig, dim, in_row_diff, col_diff_sig, row_sig, col_sig, kernel, plain>>

engine_vars == <<n_calls, sub_calls, written>>

budget_vars == <<min_ratio2, max_cost2, result2, codes_in, engine_vars>>

coarse_vars == <<self, consume_size, coarse, context_size, important, budget_vars>>

vars == <<pc, n, m, oracle, accept, max_cost, max_calls, eq_only, out, cost, exit,
          a, b, min_ratio, rtn_diff, strict, result, got_a, got_b, heap, max_depth,
          numpy_vars, coarse_vars>>

diff_vars == <<a, b, min_ratio, rtn_diff, strict, result, got_a, got_b, heap, max_depth,
               numpy_vars, coarse_vars>>

\* the variables of the numpy diff, of get_coarse, of iter_important and of the
\* second call of diff and of canonize, where they are not used
NoNumpy ==
    /\ fill = 0 /\ sig = <<>> /\ dim = 0 /\ in_row_diff = <<>>
    /\ col_diff_sig = <<>> /\ kernel = "py" /\ plain = [raised |-> "none"]
    /\ row_sig = [raised |-> "none"] /\ col_sig = [raised |-> "none"]

NoEngine == n_calls = 0 /\ sub_calls = <<>> /\ written = <<>>

NoBudgets ==
    /\ min_ratio2 = 0 /\ max_cost2 = 0 /\ result2 = [raised |-> "none"] /\ codes_in = <<>>
    /\ NoEngine

NoImportant == context_size = 0 /\ important = <<>> /\ NoBudgets

NoCoarse == self = <<>> /\ consume_size = 0 /\ coarse = [raised |-> "none"] /\ NoImportant

(***************************************************************************)
(* Bounds of the model and constants of the program.                       *)
(***************************************************************************)
MaxCells == 9
MaxLen == 4
MaxSeq == 3

RatioUnit == 1000
\* 0xFFFFFFFF in the source: a budget no run reaches.  The largest integer of
\* the model checker stands for it; both are only ever compared with counters
\* that stay far below.
MAX_COST == 2147483647
MAX_CALLS == 2147483647
MIN_RATIO == 749

Abs(v) == IF v < 0 THEN -v ELSE v
Min(x, y) == IF x < y THEN x ELSE y
Max(x, y) == IF x > y THEN x ELSE y

(***************************************************************************)
(* The out argument: None, or a buffer of codes.  Cell k of the source's   *)
(* array is codes[k + 1].  A fresh buffer holds the byte 0xFF, that is -1, *)
(* in every cell.                                                          *)
(***************************************************************************)
None == [isNone |-> TRUE, codes |-> <<>>]
Buffer(codes) == [isNone |-> FALSE, codes |-> codes]
FreshBuffer(len) == Buffer([k \in 1..len |-> -1])

WriteDiagonalNoFiller(o, ix) == [o EXCEPT !.codes[ix + 1] = 3]

\* out[ix] = 3; out[ix + 1] = 0
WriteDiagonal(o, ix) == [o EXCEPT !.codes[ix + 1] = 3, !.codes[ix + 2] = 0]

WriteTrivialSwapped(o, lo, n_, m_) ==
    [o EXCEPT !.codes = [k \in DOMAIN o.codes |->
        IF lo + 1 <= k /\ k <= lo + n_ THEN 2
        ELSE IF lo + n_ + 1 <= k /\ k <= lo + n_ + m_ THEN 1
        ELSE o.codes[k]]]

\* for ix in range(lo, lo + n_): out[ix] = 1; for ix in range(lo + n_, lo + n_ + m_): out[ix] = 2
WriteTrivial(o, lo, n_, m_) ==
    [o EXCEPT !.codes = [k \in DOMAIN o.codes |->
        IF lo + 1 <= k /\ k <= lo + n_ THEN 1
        ELSE IF lo + n_ + 1 <= k /\ k <= lo + n_ + m_ THEN 2
        ELSE o.codes[k]]]

\* the callable oracle: the similarity ratio of element x of a and element y of b.
\* A call of the oracle that raises is a cell holding a negative number: the
\* exception leaves the engine at the first such call.
similarity_ratio_getter(orc, x, y) == orc[<<x, y>>]

ValueErrorRatio == -1
RecursionErrorRatio == -2
TypeErrorRatio == -3
OracleRaises(orc, x, y) == similarity_ratio_getter(orc, x, y) < 0
ExceptionOf(ratio) ==
    IF ratio = ValueErrorRatio THEN "ValueError"
    ELSE IF ratio = RecursionErrorRatio THEN "RecursionError"
    ELSE "TypeError"
RatioOfException(exception) ==
    IF exception = "ValueError" THEN ValueErrorRatio
    ELSE IF exception = "RecursionError" THEN RecursionErrorRatio
    ELSE TypeErrorRatio
IsException(at) == at \in {"ValueError", "RecursionError", "TypeError"}

IsDiagonalAnyRatio(orc, acc, x, y) == similarity_ratio_getter(orc, x, y) >= 0

\* the diagonal (x, y) -> (x + 1, y + 1) is present iff the ratio reaches accept
IsDiagonal(orc, acc, x, y) == similarity_ratio_getter(orc, x, y) >= acc

\* max_cost = min(max_cost, n + m)
ClampMaxCost(mc, n_, m_) == Min(mc, n_ + m_)

FrontsOverlapStrict(ff, fr) == ff > fr

\* front_forward[ix] >= front_reverse[ix]
FrontsOverlap(ff, fr) == ff >= fr

FirstHalfCostRoundedDown(c) == c \div 2

\* the budgets of the two recursive calls
FirstHalfCost(c) == (c \div 2) + (c % 2)
SecondHalfCost(c) == c \div 2

CallsNeverExhausted(n_calls_, mcalls) == FALSE

\* n_calls > max_calls
CallsExhausted(n_calls_, mcalls) == n_calls_ > mcalls

(***************************************************************************)
(* Stripping the matching ends.  A frame f is the local state of one call: *)
(* n, m, i, j, out, n_calls, and raised: the exception a call of the       *)
(* oracle raised, "" when none did.  written lists the indexes of out the  *)
(* call has written to so far.                                             *)
(***************************************************************************)
RECURSIVE StripForward(_, _, _)
StripForward(orc, acc, f) ==
    IF f.n * f.m > 0 /\ f.raised = "" /\ OracleRaises(orc, f.i, f.j)
    THEN [f EXCEPT !.raised = ExceptionOf(similarity_ratio_getter(orc, f.i, f.j))]
    ELSE IF f.n * f.m > 0 /\ f.raised = "" /\ IsDiagonal(orc, acc, f.i, f.j)
    THEN StripForward(orc, acc,
            [f EXCEPT !.n_calls = @ + 1,
                      !.out = IF ~f.out.isNone THEN WriteDiagonal(f.out, f.i + f.j) ELSE f.out,
                      !.written = IF ~f.out.isNone THEN @ \o <<f.i + f.j, f.i + f.j + 1>> ELSE @,
                      !.i = @ + 1, !.j = @ + 1, !.n = @ - 1, !.m = @ - 1])
    ELSE f

RECURSIVE StripReverse(_, _, _)
StripReverse(orc, acc, f) ==
    IF f.n * f.m > 0 /\ f.raised = "" /\ OracleRaises(orc, f.i + f.n - 1, f.j + f.m - 1)
    THEN [f EXCEPT !.raised =
            ExceptionOf(similarity_ratio_getter(orc, f.i + f.n - 1, f.j + f.m - 1))]
    ELSE IF f.n * f.m > 0 /\ f.raised = ""
            /\ IsDiagonal(orc, acc, f.i + f.n - 1, f.j + f.m - 1)
    THEN StripReverse(orc, acc,
            [f EXCEPT !.n_calls = @ + 1,
                      !.out = IF ~f.out.isNone
                              THEN WriteDiagonal(f.out, f.i + f.j + f.n + f.m - 2)
                              ELSE f.out,
                      !.written = IF ~f.out.isNone
                                  THEN @ \o <<f.i + f.j + f.n + f.m - 2, f.i + f.j + f.n + f.m - 1>>
                                  ELSE @,
                      !.n = @ - 1, !.m = @ - 1])
    ELSE f

\* the indexes lo, ..., lo + len - 1
Indexes(lo, len) == [k \in 1..len |-> lo + k - 1]

\* what a call returns, and what it did: the value returned (cost), the buffer
\* after the call (out), the return statement taken (exit), the counter n_calls
\* at the return, the indexes of out written, in order, by the call and the
\* calls it made, and those calls
Result(cst, o, at, f, indexes, subs) ==
    [cost |-> cst, out |-> o, exit |-> at, n_calls |-> f.n_calls,
     written |-> f.written \o indexes, sub_calls |-> subs]

FallbackUnstripped(f, at) ==
    Result(f.n + f.m + 2 * Min(f.i, f.j),
           IF ~f.out.isNone THEN WriteTrivial(f.out, f.i + f.j, f.n, f.m) ELSE f.out,
           at, f, IF ~f.out.isNone THEN Indexes(f.i + f.j, f.n + f.m) ELSE <<>>, <<>>)

\* the exit that writes n horizontal and then m vertical moves and returns n + m;
\* exit tells which return statement of the source was taken
Fallback(f, at) ==
    Result(f.n + f.m,
           IF ~f.out.isNone THEN WriteTrivial(f.out, f.i + f.j, f.n, f.m) ELSE f.out,
           at, f, IF ~f.out.isNone THEN Indexes(f.i + f.j, f.n + f.m) ELSE <<>>, <<>>)

(***************************************************************************)
(* Phase 1 helpers.                                                        *)
(***************************************************************************)
\* slide down the progress coordinate; s is [x, y, progress, n_calls, raised]
RECURSIVE Slide(_, _, _, _, _)
Slide(orc, acc, f, sign, s) ==
    IF 0 <= s.x /\ s.x < f.n /\ 0 <= s.y /\ s.y < f.m
    THEN IF OracleRaises(orc, s.x + f.i, s.y + f.j)
         THEN [s EXCEPT !.raised =
                 ExceptionOf(similarity_ratio_getter(orc, s.x + f.i, s.y + f.j))]
         ELSE IF similarity_ratio_getter(orc, s.x + f.i, s.y + f.j) < acc
         THEN [s EXCEPT !.n_calls = @ + 1]
         ELSE Slide(orc, acc, f, sign,
                    [x |-> s.x + sign, y |-> s.y + sign,
                     progress |-> s.progress + 2 * sign, n_calls |-> s.n_calls + 1,
                     raised |-> ""])
    ELSE s

\* the call left by an exception of the oracle: nothing is returned
Propagate(o, exception) ==
    [cost |-> -1, out |-> o, exit |-> exception, n_calls |-> 0, written |-> <<>>,
     sub_calls |-> <<>>]

\* for ix in range(from, to, step): out[i + j + ix] = 3; out[i + j + ix + 1] = 0
RECURSIVE WriteSnake(_, _, _, _, _)
WriteSnake(o, base, from, to, step) ==
    IF (step > 0 /\ from < to) \/ (step < 0 /\ from > to)
    THEN WriteSnake(WriteDiagonal(o, base + from), base, from + step, to, step)
    ELSE o

\* the indexes that loop writes to, in order
RECURSIVE SnakeIndexes(_, _, _, _)
SnakeIndexes(base, from, to, step) ==
    IF (step > 0 /\ from < to) \/ (step < 0 /\ from > to)
    THEN <<base + from, base + from + 1>> \o SnakeIndexes(base, from + step, to, step)
    ELSE <<>>

(***************************************************************************)
(* The search.  L is a frame extended with nm, n_m and                     *)
(* fronts = <<front_forward, front_reverse>>; cell ix of a front is        *)
(* fronts[k][ix + 1].  c holds the values computed at the top of one       *)
(* iteration of the loop over cost.                                        *)
(***************************************************************************)
\* Python's index into an array of length len: a negative index counts from the end
PyIndex(ix, len) == IF ix < 0 THEN ix + len ELSE ix

CostContext(L, cst) ==
    LET is_reverse_front == cst % 2
        diag_src == IF is_reverse_front = 0 THEN L.m ELSE L.n
        diag_dst == IF is_reverse_front = 0 THEN L.n ELSE L.m
        p1 == cst \div 2
        p2 == ((cst - 1) \div 2) + 1
        cost_2_ == (cst \div 2) + 1
    IN [cost |-> cst,
        is_reverse_front |-> is_reverse_front,
        reverse_as_sign |-> 1 - 2 * is_reverse_front,
        diag_updated_from |-> Abs(diag_src - p1),
        diag_updated_to |-> L.n_m - Abs(diag_dst - p1),
        diag_facing_from |-> Abs(diag_dst - p2),
        diag_facing_to |-> L.n_m - Abs(diag_src - p2),
        diag_updated_from_ |-> Abs(diag_src - cost_2_),
        diag_updated_to_ |-> L.n_m - Abs(diag_dst - cost_2_)]

RECURSIVE search_graph_recursive(_, _, _, _, _, _, _, _, _, _)

\* the fronts overlap on diagonal diag: write the snake and recurse into the two halves
MiddleSnake(orc, acc, c, L, diag, progress_start, progress) ==
    IF ~L.out.isNone
    THEN LET r == c.is_reverse_front
             out1 == WriteSnake(L.out, L.i + L.j, progress_start - 2 * r,
                                progress - 2 * r, 2 * c.reverse_as_sign)
             xs == (progress_start + diag - L.m) \div 2
             ys == (progress_start - diag + L.m) \div 2
             xe == (progress + diag - L.m) \div 2
             ye == (progress - diag + L.m) \div 2
             x == IF r = 1 THEN xe ELSE xs
             y == IF r = 1 THEN ye ELSE ys
             x2 == IF r = 1 THEN xs ELSE xe
             y2 == IF r = 1 THEN ys ELSE ye
             snake == SnakeIndexes(L.i + L.j, progress_start - 2 * r, progress - 2 * r,
                                   2 * c.reverse_as_sign)
             \* a recursive call: what it was given, what its caller had, what it did
             Call(n_, m_, i_, j_, mc, did) ==
                 [n |-> n_, m |-> m_, i |-> i_, j |-> j_, max_cost |-> mc,
                  caller |-> [n |-> L.n, m |-> L.m, i |-> L.i, j |-> L.j, cost |-> c.cost],
                  cost |-> did.cost, exit |-> did.exit, written |-> did.written]
             Second(first, second) ==
                 IF IsException(second.exit) THEN second
                 ELSE Result(c.cost, second.out, "met", L,
                             snake \o first.written \o second.written,
                             <<Call(x, y, L.i, L.j, FirstHalfCost(c.cost), first)>>
                                 \o first.sub_calls
                                 \o <<Call(L.n - x2, L.m - y2, L.i + x2, L.j + y2,
                                           SecondHalfCost(c.cost), second)>>
                                 \o second.sub_calls)
             First(first) ==
                 IF IsException(first.exit) THEN first
                 ELSE Second(first,
                             search_graph_recursive(L.n - x2, L.m - y2, orc, first.out, acc,
                                 SecondHalfCost(c.cost), MAX_CALLS, FALSE, L.i + x2, L.j + y2))
         IN First(search_graph_recursive(x, y, orc, out1, acc,
                      FirstHalfCost(c.cost), MAX_CALLS, FALSE, L.i, L.j))
    ELSE Result(c.cost, L.out, "met", L, <<>>, <<>>)

\* phase 1: propagate diagonals, from diag on.  Returns [met, result] or [met, L].
RECURSIVE Phase1(_, _, _, _, _)
Phase1(orc, acc, c, L, diag) ==
    IF diag < c.diag_updated_to + 2
    THEN LET r == c.is_reverse_front
             ix == (diag \div 2) % L.nm
             progress_start == L.fronts[r + 1][ix + 1]
             s == Slide(orc, acc, L, c.reverse_as_sign,
                        [x |-> ((progress_start + diag - L.m) \div 2) - r,
                         y |-> ((progress_start - diag + L.m) \div 2) - r,
                         progress |-> progress_start,
                         n_calls |-> L.n_calls,
                         raised |-> ""])
             L1 == [L EXCEPT !.fronts[r + 1][ix + 1] = s.progress, !.n_calls = s.n_calls]
         IN IF s.raised # ""
            THEN [met |-> TRUE, result |-> Propagate(L.out, s.raised)]
            ELSE IF /\ c.diag_facing_from <= diag
                    /\ diag <= c.diag_facing_to
                    /\ (diag - c.diag_facing_from) % 2 = 0
                    /\ FrontsOverlap(L1.fronts[1][ix + 1], L1.fronts[2][ix + 1])
            THEN [met |-> TRUE,
                  result |-> MiddleSnake(orc, acc, c, L1, diag, progress_start, s.progress)]
            ELSE Phase1(orc, acc, c, L1, diag + 2)
    ELSE [met |-> FALSE, L |-> L]

\* phase 2: steps into adjacent diagonals; w is [front, ix, previous]
RECURSIVE Phase2(_, _, _, _)
Phase2(c, L, w, diag_) ==
    IF diag_ < c.diag_updated_to_ + 2
    THEN LET progress_left == w.front[(((diag_ - 1) \div 2) % L.nm) + 1]
             progress_right == w.front[(((diag_ + 1) \div 2) % L.nm) + 1]
             progress ==
                 IF diag_ = c.diag_updated_from - 1 THEN progress_right
                 ELSE IF diag_ = c.diag_updated_to + 1 THEN progress_left
                 ELSE IF c.is_reverse_front = 1 THEN Min(progress_left, progress_right)
                 ELSE Max(progress_left, progress_right)
             front1 == IF w.ix # -1
                       THEN [w.front EXCEPT ![w.ix + 1] = w.previous + c.reverse_as_sign]
                       ELSE w.front
         IN Phase2(c, L, [front |-> front1, ix |-> (diag_ \div 2) % L.nm,
                          previous |-> progress], diag_ + 2)
    ELSE [w.front EXCEPT ![PyIndex(w.ix, L.nm) + 1] = w.previous + c.reverse_as_sign]

\* for cost in range(max_cost + 1), from cst on
RECURSIVE CostLoop(_, _, _, _, _, _)
CostLoop(orc, acc, mc, mcalls, L, cst) ==
    IF cst < mc + 1
    THEN LET c == CostContext(L, cst)
             r == c.is_reverse_front
             AfterPhase1(p1) ==
                 IF p1.met THEN p1.result
                 ELSE IF CallsExhausted(p1.L.n_calls, mcalls) THEN Fallback(p1.L, "max_calls")
                 ELSE CostLoop(orc, acc, mc, mcalls,
                               [p1.L EXCEPT !.fronts[r + 1] =
                                   Phase2(c, p1.L,
                                          [front |-> p1.L.fronts[r + 1], ix |-> -1,
                                           previous |-> -1],
                                          c.diag_updated_from_)],
                               cst + 1)
         IN AfterPhase1(Phase1(orc, acc, c, L, c.diag_updated_from))
    ELSE Fallback(L, "max_cost")

\* the engine: returns [cost, out, exit], out being the buffer after the call
search_graph_recursive(n_, m_, orc, o, acc, mc_, mcalls, eqonly, i_, j_) ==
    LET mc == ClampMaxCost(mc_, n_, m_)
        f == StripReverse(orc, acc, StripForward(orc, acc,
                 [n |-> n_, m |-> m_, i |-> i_, j |-> j_, out |-> o, n_calls |-> 2,
                  raised |-> "", written |-> <<>>]))
    IN IF f.raised # "" THEN Propagate(f.out, f.raised)
       ELSE IF f.n * f.m = 0 THEN Fallback(f, "stripped")
       ELSE LET nm == Min(f.n, f.m) + 1
                n_m == f.n + f.m
                L == [n |-> f.n, m |-> f.m, i |-> f.i, j |-> f.j, out |-> f.out,
                      n_calls |-> f.n_calls, written |-> f.written, nm |-> nm, n_m |-> n_m,
                      fronts |-> <<[k \in 1..nm |-> 0], [k \in 1..nm |-> n_m]>>]
            IN CostLoop(orc, acc, mc, mcalls, L, 0)

(***************************************************************************)
(* The codec: canonize pushes, within every run of moves, the horizontal   *)
(* moves before the vertical ones.                                         *)
(***************************************************************************)
\* for code_i in range(from, n + 1), with the counters n_horizontal and n_vertical
RECURSIVE CanonizeLoop(_, _, _, _)
CanonizeLoop(codes, code_i, n_horizontal, n_vertical) ==
    IF code_i < Len(codes) + 1
    THEN LET code == IF code_i # Len(codes) THEN codes[code_i + 1] % 4 ELSE 0
         IN IF code = 1 THEN CanonizeLoop(codes, code_i + 1, n_horizontal + 1, n_vertical)
            ELSE IF code = 2 THEN CanonizeLoop(codes, code_i + 1, n_horizontal, n_vertical + 1)
            ELSE IF n_horizontal + n_vertical # 0
            THEN CanonizeLoop(
                    [k \in DOMAIN codes |->
                        IF code_i - n_horizontal - n_vertical <= k - 1 /\ k - 1 < code_i - n_vertical
                        THEN 1
                        ELSE IF code_i - n_vertical <= k - 1 /\ k - 1 < code_i THEN 2
                        ELSE codes[k]],
                    code_i + 1, 0, 0)
            ELSE CanonizeLoop(codes, code_i + 1, n_horizontal, n_vertical)
    ELSE codes

canonize_from_one(codes) == CanonizeLoop(codes, 1, 0, 0)

canonize(codes) == CanonizeLoop(codes, 0, 0, 0)

(***************************************************************************)
(* Chunks and diffs.  A ratio is the pair <<numerator, denominator>> of    *)
(* the division the source makes; the literals 0 and 1 are <<0, 1>> and    *)
(* <<1, 1>>.  A call that raised gives [raised |-> the exception].         *)
(***************************************************************************)
NoResult == [raised |-> "none"]
Raised(exception) == [raised |-> exception]
Returned(value) == [raised |-> "", value |-> value]

Chunk(data_a, data_b, eq) == [data_a |-> data_a, data_b |-> data_b, eq |-> eq]
NoDiffs == [isNone |-> TRUE, list |-> <<>>]
Diffs(list) == [isNone |-> FALSE, list |-> list]
Diff(ratio, diffs) == [ratio |-> ratio, diffs |-> diffs]

\* s[lo:hi] of the source, for 0 <= lo
PySlice(s, lo, hi) == SubSeq(s, Min(lo, Len(s)) + 1, Min(hi, Len(s)))

\* reduce(add, items): items[1] + ... + items[k], a TypeError when there is no item
RECURSIVE ReduceAdd(_, _, _)
ReduceAdd(items, k, acc) ==
    IF k > Len(items) THEN acc ELSE ReduceAdd(items, k + 1, acc \o items[k])

reduce_add(items) ==
    IF Len(items) = 0 THEN Raised("TypeError")
    ELSE Returned(ReduceAdd(items, 2, items[1]))

get_a(d) ==
    IF d.diffs.isNone THEN Raised("ValueError")
    ELSE reduce_add([k \in DOMAIN d.diffs.list |-> d.diffs.list[k].data_a])

get_b(d) ==
    IF d.diffs.isNone THEN Raised("ValueError")
    ELSE reduce_add([k \in DOMAIN d.diffs.list |-> d.diffs.list[k].data_b])

ChunkEqInverted(neq) == neq

\* eq=not neq
ChunkEq(neq) == ~neq

\* the chunk of the group g: [open, neq, offset_a, offset_b, n, m]
GroupChunk(a_, b_, g) ==
    Chunk(PySlice(a_, g.offset_a, g.n), PySlice(b_, g.offset_b, g.m), ChunkEq(g.neq))

\* codes_to_chunks without dig: the non-zero codes from cell k on, grouped by code % 3 != 0
RECURSIVE CodesToChunksLoop(_, _, _, _, _, _)
CodesToChunksLoop(a_, b_, codes, k, g, chunks) ==
    IF k > Len(codes)
    THEN IF g.open THEN Append(chunks, GroupChunk(a_, b_, g)) ELSE chunks
    ELSE LET code == codes[k]
             neq == (code % 3) # 0
         IN IF code = 0 THEN CodesToChunksLoop(a_, b_, codes, k + 1, g, chunks)
            ELSE IF g.open /\ g.neq = neq
            THEN CodesToChunksLoop(a_, b_, codes, k + 1,
                    [g EXCEPT !.n = @ + (code % 2), !.m = @ + (code \div 2)], chunks)
            ELSE CodesToChunksLoop(a_, b_, codes, k + 1,
                    [open |-> TRUE, neq |-> neq,
                     offset_a |-> g.n, offset_b |-> g.m,
                     n |-> g.n + (code % 2), m |-> g.m + (code \div 2)],
                    IF g.open THEN Append(chunks, GroupChunk(a_, b_, g)) ELSE chunks)

codes_to_chunks(a_, b_, codes) ==
    CodesToChunksLoop(a_, b_, codes, 1,
        [open |-> FALSE, neq |-> FALSE, offset_a |-> 0, offset_b |-> 0, n |-> 0, m |-> 0],
        <<>>)

\* eq = (a, b): the ratio of cell (i, j) is _a[_i] == _b[_j], True being 1
PairOracle(a_, b_) ==
    [p \in (0..(Len(a_) - 1)) \X (0..(Len(b_) - 1)) |->
        IF a_[p[1] + 1] = b_[p[2] + 1] THEN RatioUnit ELSE 0]

EffectiveMaxCostNoRatio(mc, total_len, mr) == mc

\* max_cost = min(max_cost, int(total_len - total_len * min_ratio))
EffectiveMaxCost(mc, total_len, mr) ==
    Min(mc, (total_len * RatioUnit - total_len * mr) \div RatioUnit)

RatioOfCostInverted(total_len, cst) == <<cst, total_len>>

\* ratio = (total_len - cost) / total_len
RatioOfCost(total_len, cst) == <<total_len - cst, total_len>>

\* cost > max_cost
Exceeds(cst, mc) == cst > mc

\* diff with eq=None, dig=None and the "py" kernel, rtn_diff a boolean: returns
\* [raised, value, cost, codes], value the Diff, cost what the kernel returned
\* (-1 when it was not called) and codes the buffer after the call
diff(a_, b_, acc, mr, mc_, mcalls, eqonly, rtn_diff_, strict_) ==
    LET rtn == IF eqonly THEN FALSE ELSE rtn_diff_
        n_ == Len(a_)
        m_ == Len(b_)
        total_len == n_ + m_
        codes == IF rtn THEN FreshBuffer(n_ + m_) ELSE None
    IN IF acc <= 0 THEN [raised |-> "ValueError", cost |-> -1, codes |-> None]
       ELSE IF total_len = 0
       THEN [raised |-> "", value |-> Diff(<<1, 1>>, Diffs(<<>>)), cost |-> -1, codes |-> codes]
       ELSE LET mc == EffectiveMaxCost(mc_, total_len, mr)
                Chunks(r, canonized) ==
                    [raised |-> "",
                     value |-> Diff(RatioOfCost(total_len, r.cost),
                                    Diffs(codes_to_chunks(a_, b_, canonized))),
                     cost |-> r.cost, codes |-> Buffer(canonized)]
                Return(r) ==
                    IF strict_ /\ Exceeds(r.cost, mc)
                    THEN [raised |-> "",
                          value |-> IF rtn
                                    THEN Diff(<<0, 1>>, Diffs(<<Chunk(a_, b_, FALSE)>>))
                                    ELSE Diff(<<0, 1>>, NoDiffs),
                          cost |-> r.cost, codes |-> r.out]
                    ELSE IF rtn
                    THEN Chunks(r, canonize(r.out.codes))
                    ELSE [raised |-> "",
                          value |-> Diff(RatioOfCost(total_len, r.cost), NoDiffs),
                          cost |-> r.cost, codes |-> r.out]
            IN Return(search_graph_recursive(n_, m_, PairOracle(a_, b_), codes, acc, mc,
                                             mcalls, eqonly, 0, 0))

(***************************************************************************)
(* The engine as a state machine: a call with arguments drawn from the     *)
(* bounded sets, then the canonization of the buffer it filled.            *)
(***************************************************************************)
Sizes == {s \in (0..MaxLen) \X (0..MaxLen) : s[1] * s[2] <= MaxCells}
Ratios == {0, RatioUnit}
Oracles(n_, m_) == [(0..(n_ - 1)) \X (0..(m_ - 1)) -> Ratios]
CostBudgets(n_, m_) == (0..(n_ + m_)) \cup {MAX_COST}
CallBudgets == {0, 3, 6, MAX_CALLS}

InitMyers ==
    /\ pc = "start"
    /\ \E s \in Sizes :
         /\ n = s[1]
         /\ m = s[2]
         /\ oracle \in Oracles(s[1], s[2])
         /\ max_cost \in CostBudgets(s[1], s[2])
         /\ out \in {None, FreshBuffer(s[1] + s[2])}
    /\ accept \in {MIN_RATIO, RatioUnit}
    /\ max_calls \in CallBudgets
    /\ eq_only = FALSE
    /\ cost = -1
    /\ exit = "none"
    /\ a = <<>> /\ b = <<>>
    /\ min_ratio = 0 /\ rtn_diff = FALSE /\ strict = FALSE
    /\ result = NoResult /\ got_a = NoResult /\ got_b = NoResult
    /\ heap = <<>> /\ max_depth = 0
    /\ NoNumpy /\ NoCoarse

Search ==
    /\ pc = "start"
    /\ \E r \in {search_graph_recursive(n, m, oracle, out, accept, max_cost, max_calls,
                                         eq_only, 0, 0)} :
          /\ cost' = r.cost
          /\ out' = r.out
          /\ exit' = r.exit
    /\ pc' = "returned"
    /\ UNCHANGED <<n, m, oracle, accept, max_cost, max_calls, eq_only>>
    /\ UNCHANGED diff_vars

Canonize ==
    /\ pc = "returned"
    /\ ~out.isNone
    /\ out' = Buffer(canonize(out.codes))
    /\ pc' = "canonized"
    /\ UNCHANGED <<n, m, oracle, accept, max_cost, max_calls, eq_only, cost, exit>>
    /\ UNCHANGED diff_vars

NextMyers == Search \/ Canonize

SpecMyers == InitMyers /\ [][NextMyers]_vars

(***************************************************************************)
(* What the claims speak of: the cheapest path of the grid, the walk a     *)
(* code stream describes, the counts of codes.                             *)
(***************************************************************************)
\* the least number of horizontal and vertical edges of a monotone path from
\* (0, 0) to (x, y) that takes the diagonal at a cell only where the ratio reaches acc
RECURSIVE MinCost(_, _, _, _)
MinCost(orc, acc, x, y) ==
    IF x = 0 \/ y = 0 THEN x + y
    ELSE LET h == MinCost(orc, acc, x - 1, y) + 1
             v == MinCost(orc, acc, x, y - 1) + 1
             hv == Min(h, v)
         IN IF orc[<<x - 1, y - 1>>] >= acc
            THEN Min(hv, MinCost(orc, acc, x - 1, y - 1))
            ELSE hv

TrueMinimum == MinCost(oracle, accept, n, m)

\* reading codes from cell k (1-based) at grid position (x, y): the position the
\* walk ends at, or <<-1, -1>> when a code is no move of the grid there
RECURSIVE Walk(_, _, _, _, _, _)
Walk(codes, orc, acc, k, x, y) ==
    IF k > Len(codes) THEN <<x, y>>
    ELSE LET code == codes[k]
         IN IF code = 1 THEN Walk(codes, orc, acc, k + 1, x + 1, y)
            ELSE IF code = 2 THEN Walk(codes, orc, acc, k + 1, x, y + 1)
            ELSE IF code = 3
            THEN IF /\ <<x, y>> \in DOMAIN orc
                    /\ orc[<<x, y>>] >= acc
                    /\ k < Len(codes)
                    /\ codes[k + 1] = 0
                 THEN Walk(codes, orc, acc, k + 1, x + 1, y + 1)
                 ELSE <<-1, -1>>
            ELSE IF code = 0
            THEN IF k > 1 /\ codes[k - 1] = 3
                 THEN Walk(codes, orc, acc, k + 1, x, y)
                 ELSE <<-1, -1>>
            ELSE <<-1, -1>>

CountOf(codes, set) == Cardinality({k \in DOMAIN codes : codes[k] \in set})

\* compute_cost of the tests: the codes not divisible by 3
compute_cost(codes) == Cardinality({k \in DOMAIN codes : codes[k] % 3 # 0})

\* the matching pairs stripped from the front, and then from the back of what is left
RECURSIVE PrefixLen(_, _, _, _, _)
PrefixLen(orc, acc, n_, m_, k) ==
    IF k < n_ /\ k < m_ /\ orc[<<k, k>>] >= acc THEN PrefixLen(orc, acc, n_, m_, k + 1) ELSE k

RECURSIVE SuffixLen(_, _, _, _, _, _)
SuffixLen(orc, acc, n_, m_, lo, k) ==
    IF lo + k < n_ /\ lo + k < m_ /\ orc[<<n_ - 1 - k, m_ - 1 - k>>] >= acc
    THEN SuffixLen(orc, acc, n_, m_, lo, k + 1)
    ELSE k

Stripped ==
    LET p == PrefixLen(oracle, accept, n, m, 0)
    IN p + SuffixLen(oracle, accept, n, m, p, 0)

Searched == pc \in {"returned", "canonized"}

\* C1: with max_calls unbounded and max_cost at least the true minimum, the engine
\* returns exactly the minimum cost over all monotone paths from (0, 0) to (n, m)
\* that take diagonals only where the oracle reaches accept.
C1_ReturnsMinimum ==
    (Searched /\ max_calls = MAX_CALLS /\ max_cost >= TrueMinimum) => cost = TrueMinimum

\* the fronts met after a search of several rounds, and the minimum is no trivial one
C1_Witness ==
    /\ pc = "returned" /\ max_calls = MAX_CALLS /\ exit = "met"
    /\ max_cost = TrueMinimum /\ cost = TrueMinimum
    /\ cost >= 4 /\ cost < n + m /\ Stripped = 0

\* C2: after a call with an out buffer, reading out left to right from (0, 0) ends
\* exactly at (n, m), every 3 is followed by a 0, every 0 is preceded by a 3, and
\* every 3 stands at a position whose oracle value reaches accept - whatever the
\* budgets, on success and on exhaustion.
C2_OutIsWalk ==
    (pc = "returned" /\ ~out.isNone /\ ~eq_only)
        => Walk(out.codes, oracle, accept, 1, 0, 0) = <<n, m>>

\* a walk through a middle snake and the two recursive halves, with diagonals
C2_Witness ==
    /\ pc = "returned" /\ ~out.isNone /\ exit = "met" /\ cost >= 2
    /\ CountOf(out.codes, {3}) >= 2
    /\ Walk(out.codes, oracle, accept, 1, 0, 0) = <<n, m>>

\* C7: with max_calls unbounded, if no path has cost <= max_cost the engine returns
\* a value strictly greater than max_cost.
C7_FailureCost ==
    (Searched /\ max_calls = MAX_CALLS /\ TrueMinimum > max_cost) => cost > max_cost

\* the loop over cost ran out after several rounds, on a grid with stripped ends
C7_Witness ==
    /\ pc = "returned" /\ max_calls = MAX_CALLS /\ exit = "max_cost"
    /\ TrueMinimum > max_cost /\ max_cost >= 2 /\ cost > max_cost /\ Stripped >= 1

\* C8 as claimed: giving up on max_calls returns a value strictly greater than the
\* max_cost of the call.
C8_Original == (Searched /\ exit = "max_calls") => cost > max_cost

\* C8 as amended: giving up on max_calls returns the cost of the fallback script,
\* n + m less two for every matching pair stripped from the ends, which is at least
\* the true minimum (and may well be below max_cost).
C8_FallbackCost ==
    (Searched /\ exit = "max_calls")
        => cost = n + m - 2 * Stripped /\ cost >= TrueMinimum

\* gave up on max_calls after stripping, returning less than max_cost
C8_Witness ==
    /\ pc = "returned" /\ exit = "max_calls" /\ Stripped >= 1
    /\ cost = n + m - 2 * Stripped /\ cost < max_cost /\ cost > TrueMinimum

\* C9: after a call with an out buffer the returned cost is the number of codes in
\* out that are not divisible by 3, on success and on exhaustion of either budget.
C9_CostIsCodeCount ==
    (pc = "returned" /\ ~out.isNone /\ ~eq_only) => cost = compute_cost(out.codes)

\* the fronts met at an odd cost, so the two halves had different budgets
C9_Witness ==
    /\ pc = "returned" /\ ~out.isNone /\ exit = "met"
    /\ cost >= 3 /\ cost % 2 = 1 /\ cost = compute_cost(out.codes)

\* C10 as claimed: the stream holds n codes 1 and m codes 2, also after canonize.
C10_Original ==
    (Searched /\ ~out.isNone) => CountOf(out.codes, {1}) = n /\ CountOf(out.codes, {2}) = m

\* C10 as amended: the codes 1 and 3 together are n, the codes 2 and 3 together
\* are m, in the stream the engine emits and after canonize.
C10_MovesCount ==
    (Searched /\ ~out.isNone)
        => /\ CountOf(out.codes, {1, 3}) = n
           /\ CountOf(out.codes, {2, 3}) = m

\* a canonized stream with diagonals and moves of both kinds
C10_Witness ==
    /\ pc = "canonized" /\ n # m
    /\ CountOf(out.codes, {3}) >= 1 /\ CountOf(out.codes, {1}) >= 2
    /\ CountOf(out.codes, {2}) >= 1
    /\ CountOf(out.codes, {1, 3}) = n /\ CountOf(out.codes, {2, 3}) = m

(***************************************************************************)
(* The sequence diff as a state machine: a call of diff on two sequences   *)
(* over a small alphabet, then get_a() and get_b() of the Diff returned.   *)
(***************************************************************************)
Alphabet == {0, 1}
Seqs == UNION {[1..len -> Alphabet] : len \in 0..MaxSeq}

InitDiff ==
    /\ pc = "start"
    /\ a \in Seqs
    /\ b \in Seqs
    /\ accept = MIN_RATIO
    /\ min_ratio \in {0, MIN_RATIO}
    /\ max_cost \in (0..(Len(a) + Len(b))) \cup {MAX_COST}
    /\ max_calls \in {3, MAX_CALLS}
    /\ eq_only \in BOOLEAN
    /\ rtn_diff \in BOOLEAN
    /\ strict \in BOOLEAN
    /\ n = Len(a) /\ m = Len(b)
    /\ oracle = PairOracle(a, b)
    /\ out = None
    /\ cost = -1
    /\ exit = "none"
    /\ result = NoResult /\ got_a = NoResult /\ got_b = NoResult
    /\ heap = <<>> /\ max_depth = 0
    /\ NoNumpy /\ NoCoarse

DiffCall ==
    /\ pc = "start"
    /\ \E r \in {diff(a, b, accept, min_ratio, max_cost, max_calls, eq_only, rtn_diff, strict)} :
          /\ result' = IF r.raised = "" THEN Returned(r.value) ELSE Raised(r.raised)
          /\ cost' = r.cost
          /\ out' = r.codes
    /\ pc' = "diffed"
    /\ UNCHANGED <<n, m, oracle, accept, max_cost, max_calls, eq_only, exit,
                   a, b, min_ratio, rtn_diff, strict, got_a, got_b>>
    /\ UNCHANGED <<heap, max_depth, numpy_vars, coarse_vars>>

GetA ==
    /\ pc = "diffed"
    /\ result.raised = ""
    /\ got_a' = get_a(result.value)
    /\ pc' = "got_a"
    /\ UNCHANGED <<n, m, oracle, accept, max_cost, max_calls, eq_only, out, cost, exit,
                   a, b, min_ratio, rtn_diff, strict, result, got_b>>
    /\ UNCHANGED <<heap, max_depth, numpy_vars, coarse_vars>>

GetB ==
    /\ pc = "got_a"
    /\ got_b' = get_b(result.value)
    /\ pc' = "got_b"
    /\ UNCHANGED <<n, m, oracle, accept, max_cost, max_calls, eq_only, out, cost, exit,
                   a, b, min_ratio, rtn_diff, strict, result, got_a>>
    /\ UNCHANGED <<heap, max_depth, numpy_vars, coarse_vars>>

NextDiff == DiffCall \/ GetA \/ GetB

SpecDiff == InitDiff /\ [][NextDiff]_vars

(***************************************************************************)
(* What the claims about diff speak of.                                    *)
(***************************************************************************)
DiffReturned == pc \in {"diffed", "got_a", "got_b"} /\ result.raised = ""

TotalLen == Len(a) + Len(b)

\* B = min(max_cost, floor(T - T * min_ratio))
BoundB == Min(max_cost, (TotalLen * RatioUnit - TotalLen * min_ratio) \div RatioUnit)

\* the script is reconstructed
Reconstructed == rtn_diff /\ ~eq_only

RatioEq(r, s) == r[1] * s[2] = s[1] * r[2]
RatioIsZero(r) == r[1] = 0
RatioInUnit(r) == r[2] > 0 /\ 0 <= r[1] /\ r[1] <= r[2]

\* a script of cost c exists: c is the cost of some monotone path of the grid of
\* a and b, the cheapest of which costs least
ScriptExists(c, least) ==
    /\ c >= least
    /\ c <= TotalLen
    /\ (TotalLen - c) % 2 = 0

RECURSIVE Concat(_, _)
Concat(items, k) == IF k > Len(items) THEN <<>> ELSE items[k] \o Concat(items, k + 1)

\* the chunks are an edit script of cost c turning a into b
IsScript(list, c) ==
    /\ Concat([k \in DOMAIN list |-> list[k].data_a], 1) = a
    /\ Concat([k \in DOMAIN list |-> list[k].data_b], 1) = b
    /\ \A k \in DOMAIN list : list[k].eq = TRUE => list[k].data_a = list[k].data_b
    /\ Concat([k \in DOMAIN list |->
                  IF list[k].eq = TRUE THEN <<>> ELSE list[k].data_a \o list[k].data_b], 1)
          \in [1..c -> Alphabet]

\* C3 as claimed: whenever diff returns a Diff whose diffs is not None, get_a()
\* returns a and get_b() returns b, for all sequences, both empty included.
C3_Reconstructs ==
    (pc = "got_b" /\ ~result.value.diffs.isNone)
        => got_a = Returned(a) /\ got_b = Returned(b)

\* C3 away from the empty input: with n + m > 0 the concatenation of the chunks
\* gives back a and b.
C3_ReconstructsNonEmpty ==
    (pc = "got_b" /\ ~result.value.diffs.isNone /\ TotalLen > 0)
        => got_a = Returned(a) /\ got_b = Returned(b)

\* C4: with strict=True and n + m = T > 0, diff returns either a Diff of ratio
\* (T - cost) / T for an edit script of cost <= B = min(max_cost, floor(T - T * min_ratio))
\* that really exists, or exactly the failure value Diff(ratio=0, diffs=[Chunk(a, b, False)])
\* (diffs=None when the script is not reconstructed); the ratio is zero whenever no
\* script of cost <= B exists.
C4_StrictResult ==
    (DiffReturned /\ strict /\ TotalLen > 0) =>
        LET d == result.value
            least == MinCost(PairOracle(a, b), accept, Len(a), Len(b))
        IN /\ \/ \E c \in 0..BoundB :
                    /\ ScriptExists(c, least)
                    /\ d.ratio = <<TotalLen - c, TotalLen>>
                    /\ d.diffs.isNone = ~Reconstructed
                    /\ Reconstructed => IsScript(d.diffs.list, c)
              \/ d = Diff(<<0, 1>>, IF Reconstructed THEN Diffs(<<Chunk(a, b, FALSE)>>)
                                                      ELSE NoDiffs)
           /\ ~(\E c \in 0..BoundB : ScriptExists(c, least)) => RatioIsZero(d.ratio)

\* a strict call bounded by min_ratio alone that returned a script of cost B = 1
C4_Witness ==
    /\ DiffReturned /\ strict /\ Reconstructed
    /\ min_ratio = MIN_RATIO /\ max_cost = MAX_COST /\ BoundB = 1
    /\ result.value.ratio = <<TotalLen - 1, TotalLen>>
    /\ Len(result.value.diffs.list) >= 2

\* C5: diff(a, a) with default arguments has ratio 1 and exactly one chunk with
\* eq=True spanning all of a, or no chunk when a is empty.
C5_EqualInputs ==
    (/\ DiffReturned /\ a = b
     /\ accept = MIN_RATIO /\ min_ratio = MIN_RATIO /\ max_cost = MAX_COST
     /\ max_calls = MAX_CALLS /\ ~eq_only /\ rtn_diff /\ strict)
        => /\ RatioEq(result.value.ratio, <<1, 1>>)
           /\ result.value.diffs = Diffs(IF a = <<>> THEN <<>> ELSE <<Chunk(a, a, TRUE)>>)

\* diff(a, a) returned for a sequence holding both letters
C5_Witness ==
    /\ DiffReturned /\ a = b /\ Len(a) >= 2 /\ a[1] # a[2]
    /\ accept = MIN_RATIO /\ min_ratio = MIN_RATIO /\ max_cost = MAX_COST
    /\ max_calls = MAX_CALLS /\ ~eq_only /\ rtn_diff /\ strict
    /\ result.value.diffs = Diffs(<<Chunk(a, a, TRUE)>>)

\* C6 as claimed: with n + m > 0 the ratio lies in [0, 1] and equals
\* (n + m - cost) / (n + m), cost being what the engine returned for the call.
C6_Original ==
    (DiffReturned /\ TotalLen > 0)
        => /\ RatioInUnit(result.value.ratio)
           /\ RatioEq(result.value.ratio, <<TotalLen - cost, TotalLen>>)

\* C6 as amended: with n + m > 0 the ratio lies in [0, 1]; it equals
\* (n + m - cost) / (n + m) unless strict is set and the cost the engine returned
\* exceeds min(max_cost, floor(T - T * min_ratio)), and then it is 0.
C6_Ratio ==
    (DiffReturned /\ TotalLen > 0)
        => /\ RatioInUnit(result.value.ratio)
           /\ IF strict /\ cost > BoundB
              THEN RatioIsZero(result.value.ratio)
              ELSE RatioEq(result.value.ratio, <<TotalLen - cost, TotalLen>>)

\* a strict call whose engine cost is above the bound and below n + m: ratio 0
C6_Witness ==
    /\ DiffReturned /\ strict /\ cost > BoundB
    /\ cost > 0 /\ cost < TotalLen
    /\ RatioIsZero(result.value.ratio)

(***************************************************************************)
(* The engine called with eq_only set and a buffer given.                  *)
(***************************************************************************)
InitEqOnly ==
    /\ pc = "start"
    /\ \E s \in Sizes :
         /\ n = s[1]
         /\ m = s[2]
         /\ oracle \in Oracles(s[1], s[2])
         /\ max_cost \in CostBudgets(s[1], s[2])
         /\ out = FreshBuffer(s[1] + s[2])
    /\ accept = RatioUnit
    /\ max_calls \in {3, MAX_CALLS}
    /\ eq_only = TRUE
    /\ cost = -1
    /\ exit = "none"
    /\ a = <<>> /\ b = <<>>
    /\ min_ratio = 0 /\ rtn_diff = FALSE /\ strict = FALSE
    /\ result = NoResult /\ got_a = NoResult /\ got_b = NoResult
    /\ heap = <<>> /\ max_depth = 0
    /\ NoNumpy /\ NoCoarse

NextEqOnly == Search

SpecEqOnly == InitEqOnly /\ [][NextEqOnly]_vars

\* C11: a call with eq_only set and a buffer given leaves the buffer as it was:
\* after the call every cell of out holds what it held before, for every n, m,
\* oracle and max_cost.
C11_OutUntouched ==
    (pc = "returned" /\ eq_only /\ ~out.isNone) => out = FreshBuffer(n + m)

(***************************************************************************)
(* Nested inputs of diff_nested.  A value is an int, a str or a list; a    *)
(* list is an object of the heap, named by its id, so that a list can hold *)
(* itself and two places can hold the same list.  The heap gives the items *)
(* of every list.                                                          *)
(***************************************************************************)
PyInt(v) == [kind |-> "int", v |-> <<v>>]
PyStr(chars) == [kind |-> "str", v |-> chars]
PyList(id) == [kind |-> "list", v |-> <<id>>]

\* id(x) of a list
IdOf(x) == x.v[1]

\* the elements x[0], x[1], ... of a list or of a str
Elements(h, x) ==
    IF x.kind = "list" THEN h[IdOf(x)] ELSE [k \in DOMAIN x.v |-> PyStr(<<x.v[k]>>)]

\* x == y of Python: "True", "False", or "RecursionError" when the comparison of
\* two lists never ends.  path holds the pairs of lists under comparison.
RECURSIVE PyEq(_, _, _, _)
RECURSIVE ListEq(_, _, _, _, _)
PyEq(h, x, y, path) ==
    IF x.kind # y.kind THEN "False"
    ELSE IF x.kind # "list" THEN (IF x.v = y.v THEN "True" ELSE "False")
    ELSE IF <<IdOf(x), IdOf(y)>> \in path THEN "RecursionError"
    ELSE IF Len(h[IdOf(x)]) # Len(h[IdOf(y)]) THEN "False"
    ELSE ListEq(h, x, y, 1, path \cup {<<IdOf(x), IdOf(y)>>})

\* the items of two lists of one length, from item k on; an item that is the
\* same object on both sides is equal without a comparison
ListEq(h, x, y, k, path) ==
    IF k > Len(h[IdOf(x)]) THEN "True"
    ELSE LET xi == h[IdOf(x)][k]
             yi == h[IdOf(y)][k]
             e == IF xi = yi THEN "True" ELSE PyEq(h, xi, yi, path)
         IN IF e = "True" THEN ListEq(h, x, y, k + 1, path) ELSE e

\* eq = (a_, b_): the ratio of cell (i, j) is a_[i] == b_[j]
PairEq(h, A, B) ==
    [p \in (0..(Len(A) - 1)) \X (0..(Len(B) - 1)) |->
        LET e == PyEq(h, A[p[1] + 1], B[p[2] + 1], {})
        IN IF e = "True" THEN RatioUnit ELSE IF e = "False" THEN 0 ELSE RecursionErrorRatio]

\* a per-level argument: one value for every level, or a tuple of values
Scalar(x) == [isSeq |-> FALSE, items |-> <<x>>]
Tuple(s) == [isSeq |-> TRUE, items |-> s]

\* seq[0], seq[1:] if len(seq) > 1 else seq; a scalar gives itself twice
pop_optional(seq) ==
    [here |-> seq.items[1],
     pass |-> IF seq.isSeq /\ Len(seq.items) > 1 THEN Tuple(Tail(seq.items)) ELSE seq]

\* eq of a chunk of a nested diff: True, False, or a list with one entry per element
EqBool(truth) == [isList |-> FALSE, truth |-> truth, items |-> <<>>]
EqList(items) == [isList |-> TRUE, truth |-> FALSE, items |-> items]

\* what dig returns: True, False or a nested Diff
DigBool(truth) == [isDiff |-> FALSE, truth |-> truth, diff |-> Diff(<<0, 1>>, NoDiffs)]
DigDiff(d) == [isDiff |-> TRUE, truth |-> FALSE, diff |-> d]

\* the chunk of a run of dig results with one key: eq=key or eq
DigChunk(A, B, oa, ob, g) ==
    Chunk(PySlice(A, oa + g.start, oa + g.start + Len(g.eq)),
          PySlice(B, ob + g.start, ob + g.start + Len(g.eq)),
          IF g.key THEN EqBool(TRUE) ELSE EqList(g.eq))

\* groupby(dig(*pair) for pair in zip(range(offset_a, n), range(offset_b, m)),
\*         key=lambda x: x is True), from pair k on; g is the open run
RECURSIVE DigLoop(_, _, _, _, _, _, _, _, _)
DigLoop(A, B, dig, oa, ob, k, len, g, chunks) ==
    IF k = len
    THEN [raised |-> "",
          value |-> IF g.open THEN Append(chunks, DigChunk(A, B, oa, ob, g)) ELSE chunks]
    ELSE LET d == dig[<<oa + k, ob + k>>]
             key == ~d.entry.isDiff /\ d.entry.truth
         IN IF d.raised # "" THEN [raised |-> d.raised, value |-> <<>>]
            ELSE IF g.open /\ g.key = key
            THEN DigLoop(A, B, dig, oa, ob, k + 1, len,
                         [g EXCEPT !.eq = Append(@, d.entry)], chunks)
            ELSE DigLoop(A, B, dig, oa, ob, k + 1, len,
                         [open |-> TRUE, key |-> key, start |-> k, eq |-> <<d.entry>>],
                         IF g.open THEN Append(chunks, DigChunk(A, B, oa, ob, g))
                         ELSE chunks)

\* codes_to_chunks with dig: flat holds the groups of the codes, from group k on
RECURSIVE ChunksDigLoop(_, _, _, _, _, _, _, _, _)
ChunksDigLoop(A, B, flat, dig, has_dig, k, oa, ob, chunks) ==
    IF k > Len(flat) THEN [raised |-> "", value |-> chunks]
    ELSE LET c == flat[k]
             oa1 == oa + Len(c.data_a)
             ob1 == ob + Len(c.data_b)
         IN IF ~c.eq \/ ~has_dig
            THEN ChunksDigLoop(A, B, flat, dig, has_dig, k + 1, oa1, ob1,
                               Append(chunks, Chunk(c.data_a, c.data_b, EqBool(c.eq))))
            ELSE LET g == DigLoop(A, B, dig, oa, ob, 0, Len(c.data_a),
                                  [open |-> FALSE, key |-> FALSE, start |-> 0, eq |-> <<>>],
                                  chunks)
                 IN IF g.raised # "" THEN g
                    ELSE ChunksDigLoop(A, B, flat, dig, has_dig, k + 1, oa1, ob1, g.value)

codes_to_chunks_dig(A, B, codes, dig, has_dig) ==
    ChunksDigLoop(A, B, codes_to_chunks(A, B, codes), dig, has_dig, 1, 0, 0, <<>>)

\* diff as diff_nested calls it: eq a callable (orc) or a pair, dig given or None.
\* A and B are the elements of a and b.  Returns Raised(...) or Returned(the Diff).
diff_dig(A, B, orc, eq_is_tuple, dig, has_dig, acc, mr, mc_, mcalls, eqonly, rtn_diff_, strict_) ==
    LET rtn == IF eqonly THEN FALSE ELSE rtn_diff_
        n_ == Len(A)
        m_ == Len(B)
        total_len == n_ + m_
        codes == IF rtn THEN FreshBuffer(n_ + m_) ELSE None
    IN IF eq_is_tuple /\ acc <= 0 THEN Raised("ValueError")
       ELSE IF total_len = 0 THEN Returned(Diff(<<1, 1>>, Diffs(<<>>)))
       ELSE LET mc == EffectiveMaxCost(mc_, total_len, mr)
                Chunks(r, chunks) ==
                    IF chunks.raised # "" THEN Raised(chunks.raised)
                    ELSE Returned(Diff(RatioOfCost(total_len, r.cost), Diffs(chunks.value)))
                Return(r) ==
                    IF IsException(r.exit) THEN Raised(r.exit)
                    ELSE IF strict_ /\ Exceeds(r.cost, mc)
                    THEN Returned(IF rtn
                                  THEN Diff(<<0, 1>>, Diffs(<<Chunk(A, B, EqBool(FALSE))>>))
                                  ELSE Diff(<<0, 1>>, NoDiffs))
                    ELSE IF rtn
                    THEN Chunks(r, codes_to_chunks_dig(A, B, canonize(r.out.codes), dig,
                                                       has_dig /\ rtn))
                    ELSE Returned(Diff(RatioOfCost(total_len, r.cost), NoDiffs))
            IN Return(search_graph_recursive(n_, m_, orc, codes, acc, mc, mcalls, eqonly,
                                             0, 0))

\* what diff_nested gives: it raised, or it returned a bool (truth) or a Diff
\* (value).  calls lists the calls of diff made for the levels below and at this
\* one: the arguments each was given, max_depth telling the level.
NestedRaised(exception, calls) ==
    [raised |-> exception, isBool |-> FALSE, truth |-> FALSE,
     value |-> Diff(<<0, 1>>, NoDiffs), calls |-> calls]
NestedBool(truth) ==
    [raised |-> "", isBool |-> TRUE, truth |-> truth,
     value |-> Diff(<<0, 1>>, NoDiffs), calls |-> {}]
NestedDiff(r, calls) ==
    IF r.raised # "" THEN NestedRaised(r.raised, calls)
    ELSE [raised |-> "", isBool |-> FALSE, truth |-> FALSE, value |-> r.value,
          calls |-> calls]

\* the value the engine compares with accept when _eq returned res: True is 1,
\* False is 0, a Diff is its ratio
OracleValue(res) ==
    IF res.raised # "" THEN RatioOfException(res.raised)
    ELSE IF res.isBool THEN (IF res.truth THEN RatioUnit ELSE 0)
    ELSE (res.value.ratio[1] * RatioUnit) \div res.value.ratio[2]

\* bool(d) of a Diff: "True", "False", or "ValueError"
DiffBool(d) ==
    IF d.diffs.isNone THEN "ValueError"
    ELSE IF Len(d.diffs.list) = 0 THEN "True"
    ELSE IF Len(d.diffs.list) = 1
    THEN IF d.diffs.list[1].eq.isList THEN "ValueError"
         ELSE IF d.diffs.list[1].eq.truth THEN "True" ELSE "False"
    ELSE "ValueError"

\* _dig: bool(_dig_result), and _dig_result itself when that raises ValueError
DigResult(res) ==
    IF res.raised # "" THEN [raised |-> res.raised, entry |-> DigBool(FALSE)]
    ELSE IF res.isBool THEN [raised |-> "", entry |-> DigBool(res.truth)]
    ELSE IF DiffBool(res.value) = "ValueError"
    THEN [raised |-> "", entry |-> DigDiff(res.value)]
    ELSE [raised |-> "", entry |-> DigBool(DiffBool(res.value) = "True")]

DiffCallOf(depth, mr, mc, mcalls, acc, step) ==
    [max_depth |-> depth, min_ratio |-> mr, max_cost |-> mc, max_calls |-> mcalls,
     accept |-> acc, step |-> step]

BlacklistedBoth(x, y, blacklist_a, blacklist_b) ==
    IdOf(x) \in blacklist_a /\ IdOf(y) \in blacklist_b

BlacklistedEitherSide(x, y, blacklist_a, blacklist_b) ==
    {IdOf(x), IdOf(y)} \cap (blacklist_a \cup blacklist_b) # {}

\* id(a_) in _blacklist_a or id(b_) in _blacklist_b
Blacklisted(x, y, blacklist_a, blacklist_b) ==
    IdOf(x) \in blacklist_a \/ IdOf(y) \in blacklist_b

AcceptOfHere(mr) == pop_optional(mr).here

\* accept, _ = _pop_optional(min_ratio_pass)
AcceptOf(mr) == pop_optional(pop_optional(mr).pass).here

\* diff_nested with eq=None at the top (so that a_ is a and b_ is b at every
\* level), the "py" kernel and the default nested_containers
RECURSIVE diff_nested(_, _, _, _, _, _, _, _, _, _, _)
diff_nested(h, x, y, mr, mc, mcalls, eqonly, rtn_diff_, depth, blacklist_a, blacklist_b) ==
    LET rtn == IF eqonly THEN FALSE ELSE rtn_diff_
        min_ratio_ == pop_optional(mr)
        max_cost_ == pop_optional(mc)
        max_calls_ == pop_optional(mcalls)
        acc == AcceptOf(mr)
        A == Elements(h, x)
        B == Elements(h, y)
    IN IF depth <= 1
       THEN IF x.kind = "int" \/ y.kind = "int" THEN NestedRaised("TypeError", {})
            ELSE NestedDiff(
                    diff_dig(A, B, PairEq(h, A, B), TRUE, <<>>, FALSE, MIN_RATIO,
                             min_ratio_.here, max_cost_.here, max_calls_.here, eqonly, rtn,
                             TRUE),
                    {DiffCallOf(depth, min_ratio_.here, max_cost_.here, max_calls_.here,
                                MIN_RATIO, "flat")})
       ELSE IF x.kind # y.kind THEN NestedBool(FALSE)
       ELSE IF x.kind = "list"
       THEN IF Blacklisted(x, y, blacklist_a, blacklist_b)
            THEN NestedRaised("ValueError", {})
            ELSE LET bl_a == blacklist_a \cup {IdOf(x)}
                     bl_b == blacklist_b \cup {IdOf(y)}
                     cells == (0..(Len(A) - 1)) \X (0..(Len(B) - 1))
                     eq_ == [p \in cells |->
                                diff_nested(h, A[p[1] + 1], B[p[2] + 1], min_ratio_.pass,
                                            max_cost_.pass, max_calls_.pass, TRUE, TRUE,
                                            depth - 1, bl_a, bl_b)]
                     dig_ == [p \in cells |->
                                DigResult(
                                    diff_nested(h, A[p[1] + 1], B[p[2] + 1], min_ratio_.pass,
                                                max_cost_.pass, max_calls_.pass, FALSE, rtn,
                                                depth - 1, bl_a, bl_b))]
                 IN NestedDiff(
                        diff_dig(A, B, [p \in cells |-> OracleValue(eq_[p])], FALSE, dig_,
                                 rtn, acc, min_ratio_.here, max_cost_.here, max_calls_.here,
                                 eqonly, rtn, TRUE),
                        {DiffCallOf(depth, min_ratio_.here, max_cost_.here,
                                    max_calls_.here, acc, "nested")}
                            \cup UNION {eq_[p].calls : p \in cells})
       ELSE IF x.kind = "str"
       THEN NestedDiff(
                diff_dig(A, B, PairEq(h, A, B), TRUE, <<>>, FALSE, RatioUnit,
                         min_ratio_.here, max_cost_.here, max_calls_.here, eqonly, rtn, TRUE),
                {DiffCallOf(depth, min_ratio_.here, max_cost_.here, max_calls_.here,
                            RatioUnit, "sequence")})
       ELSE NestedBool(x.v = y.v)

(***************************************************************************)
(* diff_nested as a state machine: a call on two lists of a heap drawn     *)
(* from the bounded sets.  The heap may hold a list in itself and the same *)
(* list in several places.                                                 *)
(***************************************************************************)
MaxObjects == 3
MaxItems == 3
MAX_DEPTH == 255

Items ==
    {PyInt(0), PyInt(1), PyStr(<<0, 1>>), PyStr(<<1>>)}
        \cup {PyList(id) : id \in 1..MaxObjects}

RECURSIVE SumOf(_, _)
SumOf(s, k) == IF k = 0 THEN 0 ELSE s[k] + SumOf(s, k - 1)

\* how many items every list has: MaxItems at most in the whole heap
Shapes == {s \in [1..MaxObjects -> 0..MaxItems] : SumOf(s, MaxObjects) <= MaxItems}

RECURSIVE HeapsOf(_, _)
HeapsOf(s, k) ==
    IF k = 0 THEN {<<>>}
    ELSE {Append(h, items) : h \in HeapsOf(s, k - 1), items \in [1..s[k] -> Items]}

MinRatios == {Scalar(MIN_RATIO), Scalar(0), Tuple(<<500, 0>>)}
\* max_cost and max_calls: the defaults, or a tuple each
Budgets == {<<Scalar(MAX_COST), Scalar(MAX_CALLS)>>,
            <<Tuple(<<MAX_COST, 2>>), Tuple(<<MAX_CALLS, 3>>)>>}
Depths == {1, 2, MAX_DEPTH}

InitNested ==
    /\ pc = "start"
    /\ \E s \in Shapes : heap \in HeapsOf(s, MaxObjects)
    /\ a = PyList(1)
    /\ b \in {PyList(1), PyList(2)}
    /\ min_ratio \in MinRatios
    /\ \E budget \in Budgets :
         /\ max_cost = budget[1]
         /\ max_calls = budget[2]
    /\ max_depth \in Depths
    /\ eq_only = FALSE
    /\ rtn_diff \in BOOLEAN
    /\ strict = TRUE
    /\ n = 0 /\ m = 0 /\ oracle = <<>> /\ accept = 0
    /\ out = None /\ cost = -1 /\ exit = "none"
    /\ result = NoResult /\ got_a = NoResult /\ got_b = NoResult
    /\ NoNumpy /\ NoCoarse

DiffNestedCall ==
    /\ pc = "start"
    /\ result' = diff_nested(heap, a, b, min_ratio, max_cost, max_calls, eq_only, rtn_diff,
                             max_depth, {}, {})
    /\ pc' = "nested"
    /\ UNCHANGED <<n, m, oracle, accept, max_cost, max_calls, eq_only, out, cost, exit,
                   a, b, min_ratio, rtn_diff, strict, got_a, got_b, heap, max_depth>>
    /\ UNCHANGED <<numpy_vars, coarse_vars>>

NextNested == DiffNestedCall

SpecNested == InitNested /\ [][NextNested]_vars

(***************************************************************************)
(* What the claims on diff_nested speak of.                                *)
(***************************************************************************)
NestedDone == pc = "nested"

\* The engine polls cell (0, 0) first, so a call on two lists with items always
\* reaches the call on their first items.  SpineRecurs follows that chain from
\* (x, y): TRUE when it enters a nesting step with a list already on the path of
\* its side.
RECURSIVE SpineRecurs(_, _, _, _, _)
SpineRecurs(x, y, depth, path_a, path_b) ==
    IF depth <= 1 \/ x.kind # "list" \/ y.kind # "list" THEN FALSE
    ELSE IF IdOf(x) \in path_a \/ IdOf(y) \in path_b THEN TRUE
    ELSE IF Len(heap[IdOf(x)]) = 0 \/ Len(heap[IdOf(y)]) = 0 THEN FALSE
    ELSE SpineRecurs(heap[IdOf(x)][1], heap[IdOf(y)][1], depth - 1,
                     path_a \cup {IdOf(x)}, path_b \cup {IdOf(y)})

\* C12: with max_depth > 1, when a nesting step is entered with a pair of lists
\* of which one is already on the recursion path of its side, the whole call
\* raises ValueError (it neither returns nor recurses on).
C12_RecursiveNestingRaises ==
    (NestedDone /\ max_depth > 1 /\ SpineRecurs(a, b, max_depth, {}, {}))
        => result.raised = "ValueError"

\* b is not a, the first item of a is another list than a, and the nesting comes
\* back to a list of the path two levels down or deeper
C12_Witness ==
    /\ NestedDone /\ max_depth > 1 /\ a # b
    /\ SpineRecurs(a, b, max_depth, {}, {})
    /\ Len(heap[1]) > 0 /\ heap[1][1] # a
    /\ Len(heap[2]) > 0 /\ heap[2][1] # b
    /\ result.raised = "ValueError"

\* every chunk of d and of the diffs nested in d that has a list for eq has one
\* entry per element of data_a and of data_b, and no entry is False
RECURSIVE EqListsSound(_)
EqListsSound(d) ==
    \/ d.diffs.isNone
    \/ \A k \in DOMAIN d.diffs.list :
         LET c == d.diffs.list[k]
         IN c.eq.isList =>
              /\ Len(c.eq.items) = Len(c.data_a)
              /\ Len(c.eq.items) = Len(c.data_b)
              /\ \A e \in DOMAIN c.eq.items :
                   IF c.eq.items[e].isDiff THEN EqListsSound(c.eq.items[e].diff)
                   ELSE c.eq.items[e].truth

NestedReturnedDiff == NestedDone /\ result.raised = "" /\ ~result.isBool

\* the value of a per-level argument at level k: element min(k, len - 1)
LevelValue(arg, k) == arg.items[Min(k, Len(arg.items) - 1) + 1]

\* C13: in a Diff returned by diff_nested with rtn_diff set, every chunk whose eq
\* is a list has len(eq) == len(data_a) == len(data_b) and every entry of the list
\* is a Diff or True, never False - whatever the min_ratio of any level, 0 included.
C13_EqListEntries ==
    (NestedReturnedDiff /\ rtn_diff) => EqListsSound(result.value)

\* the same when the min_ratio of every level below the top is positive
C13_EqListEntriesPositiveRatio ==
    (NestedReturnedDiff /\ rtn_diff
        /\ \A k \in 1..Len(min_ratio.items) : LevelValue(min_ratio, k) > 0)
        => EqListsSound(result.value)

\* C14 as claimed: the call of diff at level k is given element min(k, len - 1)
\* of min_ratio, of max_cost and of max_calls, and the min_ratio of level k + 1
\* for accept.
C14_Original ==
    NestedDone =>
        \A call \in result.calls :
            LET k == max_depth - call.max_depth
            IN /\ call.min_ratio = LevelValue(min_ratio, k)
               /\ call.max_cost = LevelValue(max_cost, k)
               /\ call.max_calls = LevelValue(max_calls, k)
               /\ call.accept = LevelValue(min_ratio, k + 1)

\* C14 as amended: the call of diff at level k is given element min(k, len - 1)
\* of min_ratio, of max_cost and of max_calls.  Its accept is the min_ratio of
\* level k + 1 when the level compares two nested containers; it is 1 when the
\* level compares two sequences of another type, and the default of diff when
\* max_depth ends the nesting at the level.
C14_LevelArguments ==
    NestedDone =>
        \A call \in result.calls :
            LET k == max_depth - call.max_depth
            IN /\ call.min_ratio = LevelValue(min_ratio, k)
               /\ call.max_cost = LevelValue(max_cost, k)
               /\ call.max_calls = LevelValue(max_calls, k)
               /\ call.accept = (IF call.step = "nested" THEN LevelValue(min_ratio, k + 1)
                                 ELSE IF call.step = "sequence" THEN RatioUnit
                                 ELSE MIN_RATIO)

\* three levels under tuples of two values: the last value serves level 2, and
\* the levels are two nesting steps and a comparison of two strs
C14_Witness ==
    /\ NestedDone /\ result.raised = ""
    /\ min_ratio.isSeq /\ Len(min_ratio.items) = 2
    /\ max_cost.isSeq /\ Len(max_cost.items) = 2
    /\ \E c0, c1, c2 \in result.calls :
         /\ c0.max_depth = max_depth /\ c0.step = "nested"
         /\ c0.accept = min_ratio.items[2] /\ c0.min_ratio = min_ratio.items[1]
         /\ c1.max_depth = max_depth - 1 /\ c1.step = "nested"
         /\ c1.max_cost = max_cost.items[2]
         /\ c2.max_depth = max_depth - 2 /\ c2.step = "sequence"
         /\ c2.min_ratio = min_ratio.items[2] /\ c2.accept = RatioUnit

(***************************************************************************)
(* Signatures (ChunkSignature, Signature) and the arrays of the numpy      *)
(* diff.  A one-dimensional array is the sequence of its elements; a       *)
(* matrix is its shape and the sequence of its rows, the shape kept apart  *)
(* because a matrix of no rows still has a number of columns.              *)
(***************************************************************************)
ChunkSignature(size_a, size_b, eq) == [size_a |-> size_a, size_b |-> size_b, eq |-> eq]

\* ChunkSignature.__len__
PartLen(part) == IF part.eq THEN part.size_a ELSE part.size_a + part.size_b

NoSignature == [isNone |-> TRUE, parts |-> <<>>]
Signature(parts) == [isNone |-> FALSE, parts |-> parts]

RECURSIVE SumLen(_, _)
SumLen(parts, k) == IF k = 0 THEN 0 ELSE PartLen(parts[k]) + SumLen(parts, k - 1)

\* Signature.__len__
SignatureLen(s) == SumLen(s.parts, Len(s.parts))

\* ChunkSignature.aligned, ChunkSignature.delta, Signature.aligned
ChunkAligned(len) == ChunkSignature(len, len, TRUE)
ChunkDelta(len_a, len_b) == ChunkSignature(len_a, len_b, FALSE)
SignatureAligned(len) == IF len = 0 THEN Signature(<<>>) ELSE Signature(<<ChunkAligned(len)>>)

ChunkSignatureOfA(chunk) ==
    ChunkSignature(Len(chunk.data_a), Len(chunk.data_a), chunk.eq # FALSE)

\* Chunk.signature: eq is not False (eq a boolean)
ChunkSignatureOf(chunk) ==
    ChunkSignature(Len(chunk.data_a), Len(chunk.data_b), chunk.eq # FALSE)

\* Chunk.signature of a chunk of a nested diff: eq is True, False or a list
NestedChunkSignatureOf(chunk) ==
    ChunkSignature(Len(chunk.data_a), Len(chunk.data_b), chunk.eq.isList \/ chunk.eq.truth)

\* Diff.signature
DiffSignature(d_) ==
    IF d_.diffs.isNone THEN Raised("ValueError")
    ELSE Returned(Signature([k \in DOMAIN d_.diffs.list |->
                                ChunkSignatureOf(d_.diffs.list[k])]))

NestedDiffSignature(d_) ==
    IF d_.diffs.isNone THEN Raised("ValueError")
    ELSE Returned(Signature([k \in DOMAIN d_.diffs.list |->
                                NestedChunkSignatureOf(d_.diffs.list[k])]))

Matrix(rows_, cols_, data) == [shape |-> <<rows_, cols_>>, rows |-> data]

\* the columns of a matrix, and the matrix of given columns
Columns(mat) ==
    [j \in 1..mat.shape[2] |-> [i \in 1..mat.shape[1] |-> mat.rows[i][j]]]
FromColumns(rows_, columns) ==
    Matrix(rows_, Len(columns),
           [i \in 1..rows_ |-> [j \in 1..Len(columns) |-> columns[j][i]]])

\* np.full(shape, val) along one axis
Full(len, val) == [k \in 1..len |-> val]

\* target[offset:offset + len(source)] = source
SetSlice(target, offset, source) ==
    [k \in DOMAIN target |->
        IF k > offset /\ k <= offset + Len(source) THEN source[k - offset] ELSE target[k]]

OffsetAfterAAlways(part, offset) == offset + part.size_a

\* if not chunk.eq: offset += chunk.size_a
OffsetAfterA(part, offset) == IF part.eq THEN offset ELSE offset + part.size_a

\* the loop of align_inflate along the axis, from part k on: items_a and items_b
\* are the slices of a and b along the axis
RECURSIVE InflateLoop(_, _, _, _, _, _, _, _, _)
InflateLoop(items_a, items_b, parts, k, offset_a, offset_b, offset, result_a, result_b) ==
    IF k > Len(parts) THEN [a |-> result_a, b |-> result_b]
    ELSE LET chunk == parts[k]
             offset_mid == OffsetAfterA(chunk, offset)
         IN InflateLoop(items_a, items_b, parts, k + 1,
                offset_a + chunk.size_a, offset_b + chunk.size_b,
                offset_mid + chunk.size_b,
                SetSlice(result_a, offset,
                         PySlice(items_a, offset_a, offset_a + chunk.size_a)),
                SetSlice(result_b, offset_mid,
                         PySlice(items_b, offset_b, offset_b + chunk.size_b)))

\* align_inflate of two one-dimensional arrays
align_inflate_1d(a_, b_, val, sig_) ==
    LET s == SignatureLen(sig_)
    IN InflateLoop(a_, b_, sig_.parts, 1, 0, 0, 0, Full(s, val), Full(s, val))

\* align_inflate of two matrices along dim
align_inflate(a_, b_, val, sig_, dim_) ==
    LET s == SignatureLen(sig_)
    IN IF dim_ = 0
       THEN LET r == InflateLoop(a_.rows, b_.rows, sig_.parts, 1, 0, 0, 0,
                                 Full(s, Full(a_.shape[2], val)),
                                 Full(s, Full(b_.shape[2], val)))
            IN [a |-> Matrix(s, a_.shape[2], r.a), b |-> Matrix(s, b_.shape[2], r.b)]
       ELSE LET r == InflateLoop(Columns(a_), Columns(b_), sig_.parts, 1, 0, 0, 0,
                                 Full(s, Full(a_.shape[1], val)),
                                 Full(s, Full(b_.shape[1], val)))
            IN [a |-> FromColumns(a_.shape[1], r.a), b |-> FromColumns(b_.shape[1], r.b)]

(***************************************************************************)
(* align_inflate as a state machine: a call on two matrices, a fill value, *)
(* an axis and a signature whose sizes add up to the lengths of the two    *)
(* matrices along the axis and whose aligned parts pair as many elements   *)
(* of a as of b.                                                           *)
(***************************************************************************)
MaxAxis == 2
MaxParts == 3

Values == {0, 1}
Fills == {0, 9}

MatricesOf(rows_, cols_) ==
    {Matrix(rows_, cols_, data) : data \in [1..rows_ -> [1..cols_ -> Values]]}
Matrices == UNION {MatricesOf(r, c) : r \in 0..MaxAxis, c \in 0..MaxAxis}

Parts ==
    {ChunkAligned(len) : len \in 0..MaxAxis}
        \cup {ChunkDelta(len_a, len_b) : len_a \in 0..MaxAxis, len_b \in 0..MaxAxis}

RECURSIVE SumSizeA(_, _)
SumSizeA(parts, k) == IF k = 0 THEN 0 ELSE parts[k].size_a + SumSizeA(parts, k - 1)
RECURSIVE SumSizeB(_, _)
SumSizeB(parts, k) == IF k = 0 THEN 0 ELSE parts[k].size_b + SumSizeB(parts, k - 1)

\* the signatures of up to MaxParts parts of two arrays of the given lengths
Signatures(len_a, len_b) ==
    {Signature(parts) : parts \in
        {p \in UNION {[1..len -> Parts] : len \in 0..MaxParts} :
            SumSizeA(p, Len(p)) = len_a /\ SumSizeB(p, Len(p)) = len_b}}

InitInflate ==
    /\ pc = "start"
    /\ a \in Matrices
    /\ b \in Matrices
    /\ dim \in {0, 1}
    /\ fill \in Fills
    /\ sig \in Signatures(a.shape[dim + 1], b.shape[dim + 1])
    /\ n = 0 /\ m = 0 /\ oracle = <<>> /\ accept = 0
    /\ max_cost = 0 /\ max_calls = 0 /\ eq_only = FALSE
    /\ out = None /\ cost = -1 /\ exit = "none"
    /\ min_ratio = 0 /\ rtn_diff = FALSE /\ strict = FALSE
    /\ result = NoResult /\ got_a = NoResult /\ got_b = NoResult
    /\ heap = <<>> /\ max_depth = 0
    /\ in_row_diff = <<>> /\ col_diff_sig = <<>> /\ kernel = "py"
    /\ plain = [raised |-> "none"]
    /\ row_sig = NoResult /\ col_sig = NoResult
    /\ NoCoarse

AlignInflate ==
    /\ pc = "start"
    /\ result' = Returned(align_inflate(a, b, fill, sig, dim))
    /\ pc' = "inflated"
    /\ UNCHANGED <<n, m, oracle, accept, max_cost, max_calls, eq_only, out, cost, exit,
                   a, b, min_ratio, rtn_diff, strict, got_a, got_b, heap, max_depth>>
    /\ UNCHANGED <<numpy_vars, coarse_vars>>

NextInflate == AlignInflate

SpecInflate == InitInflate /\ [][NextInflate]_vars

(***************************************************************************)
(* What the claim on align_inflate speaks of.                              *)
(***************************************************************************)
\* the slices of a matrix along the axis
AxisItems(mat, dim_) == IF dim_ = 0 THEN mat.rows ELSE Columns(mat)
\* the slice of fill values across the axis
FillItem(mat, dim_) == Full(mat.shape[2 - dim_], fill)

\* where part k starts in the inflated arrays, and in a and in b
PartStart(k) == SumLen(sig.parts, k - 1)
PartStartA(k) == SumSizeA(sig.parts, k - 1)
PartStartB(k) == SumSizeB(sig.parts, k - 1)

\* the inflated positions that hold elements of a, of b
PositionsOfA ==
    UNION {{PartStart(k) + i : i \in 1..sig.parts[k].size_a} : k \in DOMAIN sig.parts}
PositionsOfB ==
    UNION {{PartStart(k) + (IF sig.parts[k].eq THEN 0 ELSE sig.parts[k].size_a) + j :
                j \in 1..sig.parts[k].size_b} : k \in DOMAIN sig.parts}

RECURSIVE Kept(_, _, _)
Kept(items, positions, k) ==
    IF k > Len(items) THEN <<>>
    ELSE (IF k \in positions THEN <<items[k]>> ELSE <<>>) \o Kept(items, positions, k + 1)

Inflated == pc = "inflated"

\* C17: align_inflate returns two arrays of length len(sig) along dim; in an
\* aligned part the elements of a and of b sit at the same positions; in a
\* disaligned part the elements of a take the first size_a positions, where b
\* holds the fill value, and the elements of b the next size_b positions, where
\* a holds the fill value; dropping the filled positions gives back a and b.
C17_AlignInflate ==
    Inflated =>
        LET items_a == AxisItems(a, dim)
            items_b == AxisItems(b, dim)
            result_a == AxisItems(result.value.a, dim)
            result_b == AxisItems(result.value.b, dim)
        IN /\ result.value.a.shape[dim + 1] = SignatureLen(sig)
           /\ result.value.b.shape[dim + 1] = SignatureLen(sig)
           /\ Len(result_a) = SignatureLen(sig) /\ Len(result_b) = SignatureLen(sig)
           /\ result.value.a.shape[2 - dim] = a.shape[2 - dim]
           /\ result.value.b.shape[2 - dim] = b.shape[2 - dim]
           /\ \A k \in DOMAIN sig.parts :
                LET part == sig.parts[k]
                IN IF part.eq
                   THEN \A i \in 1..part.size_a :
                            /\ result_a[PartStart(k) + i] = items_a[PartStartA(k) + i]
                            /\ result_b[PartStart(k) + i] = items_b[PartStartB(k) + i]
                   ELSE /\ \A i \in 1..part.size_a :
                            /\ result_a[PartStart(k) + i] = items_a[PartStartA(k) + i]
                            /\ result_b[PartStart(k) + i] = FillItem(b, dim)
                        /\ \A j \in 1..part.size_b :
                            /\ result_b[PartStart(k) + part.size_a + j]
                                = items_b[PartStartB(k) + j]
                            /\ result_a[PartStart(k) + part.size_a + j] = FillItem(a, dim)
           /\ Kept(result_a, PositionsOfA, 1) = items_a
           /\ Kept(result_b, PositionsOfB, 1) = items_b

\* a call along the columns of matrices of different heights, with a disaligned
\* part that holds elements of both and an aligned part after it
C17_Witness ==
    /\ Inflated /\ dim = 1
    /\ a.shape[1] > 0 /\ b.shape[1] > 0 /\ a.shape[1] # b.shape[1]
    /\ Len(sig.parts) = 2
    /\ ~sig.parts[1].eq /\ sig.parts[1].size_a > 0 /\ sig.parts[1].size_b > 0
    /\ sig.parts[2].eq /\ sig.parts[2].size_a > 0
    /\ result.value.a.shape = <<a.shape[1], 3>>

(***************************************************************************)
(* common_diff_sig: the signature of the columns that the diffs within the *)
(* aligned rows agree on most.  An entry of diffs is what the eq list of a *)
(* chunk holds (DigDiff, DigBool); arrays are functions from 0.             *)
(***************************************************************************)
\* if chunk.eq
Truthy(eq) == IF eq.isList THEN Len(eq.items) > 0 ELSE eq.truth

\* where the chunks of a diff start in a and in b
RECURSIVE ChunkStartA(_, _)
ChunkStartA(list, k) == IF k = 1 THEN 0 ELSE ChunkStartA(list, k - 1) + Len(list[k - 1].data_a)
RECURSIVE ChunkStartB(_, _)
ChunkStartB(list, k) == IF k = 1 THEN 0 ELSE ChunkStartB(list, k - 1) + Len(list[k - 1].data_b)

\* the cells one diff adds 1 to, each named with the chunk that adds
CellsOf(list) ==
    UNION {{<<k, ChunkStartA(list, k) + i, ChunkStartB(list, k) + i>> :
                i \in 0..(Len(list[k].data_a) - 1)} :
           k \in {c \in DOMAIN list : Truthy(list[c].eq)}}

\* a cell outside of the search space: space[x + i, y + i] raises IndexError
OutOfSpace(n_, m_, diffs_) ==
    \E d_ \in DOMAIN diffs_ : \E c \in CellsOf(diffs_[d_].diff.diffs.list) :
        c[2] >= n_ \/ c[3] >= m_

\* space after "prepare search space"
PreparedSpace(n_, m_, diffs_) ==
    [p \in (0..(n_ - 1)) \X (0..(m_ - 1)) |->
        Cardinality({dc \in UNION {{<<d_, c>> : c \in CellsOf(diffs_[d_].diff.diffs.list)} :
                                    d_ \in DOMAIN diffs_} :
                        dc[2][2] = p[1] /\ dc[2][3] = p[2]})]

Max3(x, y, z) == Max(x, Max(y, z))

\* space after "search"
SearchedSpace(n_, m_, raw) ==
    LET space[x \in 0..(n_ - 1), y \in 0..(m_ - 1)] ==
            IF y = 0
            THEN IF x = 0 THEN raw[<<0, 0>>] ELSE Max(raw[<<x, 0>>], space[x - 1, 0])
            ELSE IF x = 0 THEN Max(raw[<<0, y>>], space[0, y - 1])
            ELSE Max3(space[x - 1, y], space[x, y - 1], space[x - 1, y - 1] + raw[<<x, y>>])
    IN space

\* "trace back": the loop, then the elements of b left at the start
RECURSIVE TraceBack(_, _, _, _, _, _)
TraceBack(space, x, y, pos, is_b, is_eq) ==
    IF x >= 0 /\ y >= 0
    THEN IF x > 0 /\ space[x, y] = space[x - 1, y]
         THEN TraceBack(space, x - 1, y, pos - 1, is_b, is_eq)
         ELSE IF y > 0 /\ space[x, y] = space[x, y - 1]
         THEN TraceBack(space, x, y - 1, pos - 1, [is_b EXCEPT ![pos - 1] = TRUE], is_eq)
         ELSE TraceBack(space, x - 1, y - 1, pos - 2,
                        [is_b EXCEPT ![pos - 1] = TRUE],
                        [is_eq EXCEPT ![pos] = TRUE, ![pos - 1] = TRUE])
    ELSE [is_b |-> [k \in DOMAIN is_b |->
                        IF k >= x + 1 /\ k < (x + 1) + (y + 1) THEN TRUE ELSE is_b[k]],
          is_eq |-> is_eq]

\* the sorted list of a set of numbers
RECURSIVE Sorted(_)
Sorted(set) ==
    IF set = {} THEN <<>>
    ELSE LET least == CHOOSE v \in set : \A w \in set : v <= w
         IN <<least>> \o Sorted(set \ {least})

\* (is_b[fr:to]).sum(), (~is_b[fr:to]).sum()
CountIn(flags, fr, to, flag) == Cardinality({k \in fr..(to - 1) : flags[k] = flag})

\* eq=bool(is_eq[fr + 1])
PartEq(is_eq, fr) == is_eq[fr + 1]

common_diff_sig(n_, m_, diffs_) ==
    IF n_ = 0 /\ m_ = 0 THEN Returned(Signature(<<>>))
    ELSE IF n_ = 0 \/ m_ = 0 THEN Returned(Signature(<<ChunkSignature(n_, m_, FALSE)>>))
    ELSE IF \E d_ \in DOMAIN diffs_ : ~diffs_[d_].isDiff THEN Raised("AttributeError")
    ELSE IF OutOfSpace(n_, m_, diffs_) THEN Raised("IndexError")
    ELSE LET space == SearchedSpace(n_, m_, PreparedSpace(n_, m_, diffs_))
             t == TraceBack(space, n_ - 1, m_ - 1, n_ + m_,
                            [k \in 0..(n_ + m_ - 1) |-> FALSE],
                            [k \in 0..(n_ + m_ + 1) |-> FALSE])
             is_eq == [t.is_eq EXCEPT ![0] = ~t.is_eq[1],
                                      ![n_ + m_ + 1] = ~t.is_eq[n_ + m_]]
             ix == Sorted({k \in 0..(n_ + m_) : is_eq[k + 1] # is_eq[k]})
         IN Returned(Signature(
                [k \in 1..(Len(ix) - 1) |->
                    ChunkSignature(CountIn(t.is_b, ix[k], ix[k + 1], FALSE),
                                   CountIn(t.is_b, ix[k], ix[k + 1], TRUE),
                                   PartEq(is_eq, ix[k]))]))

(***************************************************************************)
(* The signatures as a state machine: Diff.signature of diff(a, b), then   *)
(* common_diff_sig of a list of diffs of a and b.  The diffs of the list   *)
(* are any chunkings of a and b, drawn for the all-zero a and b (what the   *)
(* elements are has no part in common_diff_sig).                           *)
(***************************************************************************)
MaxDiffs == 2

\* the chunk of part k of a chunking of a_ and b_
ChunkOfPart(a_, b_, parts, k) ==
    Chunk(PySlice(a_, SumSizeA(parts, k - 1), SumSizeA(parts, k)),
          PySlice(b_, SumSizeB(parts, k - 1), SumSizeB(parts, k)),
          EqBool(parts[k].eq))

\* the diffs of a_ and b_ of up to MaxParts chunks, none of them empty
InnerDiffs(a_, b_) ==
    {DigDiff(Diff(<<1, 1>>,
                  Diffs([k \in DOMAIN s.parts |-> ChunkOfPart(a_, b_, s.parts, k)]))) :
        s \in {t \in Signatures(Len(a_), Len(b_)) :
                \A k \in DOMAIN t.parts : PartLen(t.parts[k]) > 0}}

InnerLists(a_, b_) ==
    IF a_ = Full(Len(a_), 0) /\ b_ = Full(Len(b_), 0)
    THEN UNION {[1..len -> InnerDiffs(a_, b_)] : len \in 0..MaxDiffs}
    ELSE {<<>>}

InitSig ==
    /\ pc = "start"
    /\ a \in Seqs
    /\ b \in Seqs
    /\ n = Len(a) /\ m = Len(b)
    /\ in_row_diff \in InnerLists(a, b)
    /\ accept = MIN_RATIO
    /\ min_ratio = MIN_RATIO
    /\ max_cost \in {1, MAX_COST}
    /\ max_calls = MAX_CALLS
    /\ eq_only = FALSE /\ rtn_diff = TRUE
    /\ strict = TRUE
    /\ oracle = PairOracle(a, b)
    /\ out = None /\ cost = -1 /\ exit = "none"
    /\ result = NoResult /\ got_a = NoResult /\ got_b = NoResult
    /\ heap = <<>> /\ max_depth = 0
    /\ fill = 0 /\ sig = <<>> /\ dim = 0 /\ col_diff_sig = <<>> /\ kernel = "py"
    /\ plain = [raised |-> "none"]
    /\ row_sig = NoResult /\ col_sig = NoResult
    /\ NoCoarse

\* diff(a, b).signature
SignatureOfDiff ==
    /\ pc = "start"
    /\ \E r \in {diff(a, b, accept, min_ratio, max_cost, max_calls, eq_only, rtn_diff, strict)} :
          /\ result' = IF r.raised = "" THEN Returned(r.value) ELSE Raised(r.raised)
          /\ row_sig' = IF r.raised = "" THEN DiffSignature(r.value) ELSE Raised(r.raised)
    /\ pc' = "signed"
    /\ UNCHANGED <<n, m, oracle, accept, max_cost, max_calls, eq_only, out, cost, exit,
                   a, b, min_ratio, rtn_diff, strict, got_a, got_b, heap, max_depth>>
    /\ UNCHANGED <<fill, sig, dim, in_row_diff, col_diff_sig, col_sig, kernel, plain>>
    /\ UNCHANGED coarse_vars

CommonDiffSig ==
    /\ pc = "signed"
    /\ col_sig' = common_diff_sig(n, m, in_row_diff)
    /\ pc' = "common"
    /\ UNCHANGED <<n, m, oracle, accept, max_cost, max_calls, eq_only, out, cost, exit,
                   a, b, min_ratio, rtn_diff, strict, result, got_a, got_b, heap,
                   max_depth>>
    /\ UNCHANGED <<fill, sig, dim, in_row_diff, col_diff_sig, row_sig, kernel, plain>>
    /\ UNCHANGED coarse_vars

NextSig == SignatureOfDiff \/ CommonDiffSig

SpecSig == InitSig /\ [][NextSig]_vars

(***************************************************************************)
(* What the claim on signatures speaks of.                                 *)
(***************************************************************************)
\* the sum of the lengths of the parts: size_a of an aligned part, size_a + size_b
\* of a disaligned one
RECURSIVE PartLengths(_, _)
PartLengths(parts, k) ==
    IF k = 0 THEN 0
    ELSE PartLengths(parts, k - 1)
            + (IF parts[k].eq THEN parts[k].size_a ELSE parts[k].size_a + parts[k].size_b)

SumsTo(s, len_a, len_b) ==
    /\ SumSizeA(s.parts, Len(s.parts)) = len_a
    /\ SumSizeB(s.parts, Len(s.parts)) = len_b
    /\ SignatureLen(s) = PartLengths(s.parts, Len(s.parts))

\* C16: in the signature of diff(a, b) the size_a of the parts sum to len(a) and
\* the size_b to len(b); in the signature common_diff_sig(n, m, diffs) returns
\* they sum to n and to m; the length of either is the sum of the lengths of
\* its parts.
C16_SignatureSums ==
    /\ (pc \in {"signed", "common"} /\ row_sig.raised = "")
            => SumsTo(row_sig.value, Len(a), Len(b))
    /\ (pc = "common" /\ col_sig.raised = "") => SumsTo(col_sig.value, n, m)

\* a diff of three and two elements gives a signature with an aligned and a
\* disaligned part, and two different diffs of such rows give a signature of the
\* columns with three parts
C16_Witness ==
    /\ pc = "common" /\ row_sig.raised = "" /\ col_sig.raised = ""
    /\ n = 3 /\ m = 2
    /\ Len(row_sig.value.parts) >= 2
    /\ \E k \in DOMAIN row_sig.value.parts : row_sig.value.parts[k].eq
    /\ Len(in_row_diff) = 2 /\ in_row_diff[1] # in_row_diff[2]
    /\ Len(col_sig.value.parts) >= 3
    /\ \E k \in DOMAIN col_sig.value.parts : col_sig.value.parts[k].eq

(***************************************************************************)
(* The aligned diff of two matrices: get_row_col_diff, diff_aligned_2d and *)
(* NumpyDiff.  The rows of the two matrices are list objects of a heap, so *)
(* that the diff of the matrices is diff_nested with max_depth = 2.        *)
(***************************************************************************)
\* the matrices as objects: a is object 1, b is object 2, then the rows of a
\* and the rows of b
HeapOf(a_, b_) ==
    <<[i \in 1..a_.shape[1] |-> PyList(2 + i)],
      [i \in 1..b_.shape[1] |-> PyList(2 + a_.shape[1] + i)]>>
        \o [i \in 1..a_.shape[1] |-> [j \in 1..a_.shape[2] |-> PyInt(a_.rows[i][j])]]
        \o [i \in 1..b_.shape[1] |-> [j \in 1..b_.shape[2] |-> PyInt(b_.rows[i][j])]]

\* diff of numpy.py on two matrices: diff_nested with max_depth=ndim
numpy_diff(a_, b_, mr, mc, mcalls) ==
    diff_nested(HeapOf(a_, b_), PyList(1), PyList(2), mr, mc, mcalls, FALSE, TRUE, 2,
                {}, {})

\* the diffs within the rows of one chunk of the base diff
InRowDiffOf(h, chunk) ==
    IF ~chunk.eq.isList
    THEN IF chunk.eq.truth
         THEN [k \in DOMAIN chunk.data_a |->
                  DigDiff(Diff(<<1, 1>>,
                               Diffs(<<Chunk(Elements(h, chunk.data_a[k]),
                                             Elements(h, chunk.data_b[k]),
                                             EqBool(TRUE))>>)))]
         ELSE <<>>
    ELSE chunk.eq.items

RECURSIVE InRowDiff(_, _, _)
InRowDiff(h, list, k) ==
    IF k > Len(list) THEN <<>> ELSE InRowDiffOf(h, list[k]) \o InRowDiff(h, list, k + 1)

\* returns Raised(...) or Returned([row_sig, col_sig])
get_row_col_diff(a_, b_, mr, mc, mcalls) ==
    LET OfBoth(row_sig_, col_sig_) ==
            IF row_sig_.raised # "" THEN Raised(row_sig_.raised)
            ELSE IF col_sig_.raised # "" THEN Raised(col_sig_.raised)
            ELSE Returned([row_sig |-> row_sig_.value, col_sig |-> col_sig_.value])
        OfBase(base_diff) ==
            IF base_diff.raised # "" THEN Raised(base_diff.raised)
            ELSE OfBoth(NestedDiffSignature(base_diff.value),
                        common_diff_sig(a_.shape[2], b_.shape[2],
                            InRowDiff(HeapOf(a_, b_), base_diff.value.diffs.list, 1)))
    IN OfBase(numpy_diff(a_, b_, mr, mc, mcalls))

\* the mask of the columns before it is scaled: chunk.eq + 1 for every inflated
\* column of the chunk
RECURSIVE ColumnMask(_, _)
ColumnMask(parts, k) ==
    IF k > Len(parts) THEN <<>>
    ELSE Full(PartLen(parts[k]), IF parts[k].eq THEN 2 ELSE 1) \o ColumnMask(parts, k + 1)

RECURSIVE SumTo(_, _)
SumTo(s, k) == IF k = 0 THEN 0 ELSE s[k] + SumTo(s, k - 1)

\* the ratio of two rows in the 2D kernel: ((a[i] == b[j]) * weights).sum() / n
\* with weights = mask * len(mask) / mask.sum()
WeightedRatio(row_a, row_b, mask) ==
    (SumTo([k \in DOMAIN mask |-> IF row_a[k] = row_b[k] THEN mask[k] ELSE 0], Len(mask))
        * RatioUnit) \div SumTo(mask, Len(mask))

\* max(min_ratio_row, (_max_cost - max_cost_row) / _max_cost)
AcceptOfRows(min_ratio_row, max_cost_row, max_cost_) ==
    IF max_cost_row >= max_cost_ THEN Max(min_ratio_row, 0)
    ELSE Max(min_ratio_row, ((max_cost_ - max_cost_row) * RatioUnit) \div max_cost_)

\* the diff of the rows of two matrices of aligned columns.  The call asks
\* for ext_no_python, which the "py" kernel refuses.
diff_2d(a_, b_, mask, acc, mr, mc, mcalls, kernel_) ==
    IF acc > 0 /\ a_.shape[1] + b_.shape[1] > 0 /\ kernel_ = "py" THEN Raised("ValueError")
    ELSE diff_dig(a_.rows, b_.rows,
                  [p \in (0..(a_.shape[1] - 1)) \X (0..(b_.shape[1] - 1)) |->
                      WeightedRatio(a_.rows[p[1] + 1], b_.rows[p[2] + 1], mask)],
                  TRUE, <<>>, FALSE, acc, mr, mc, mcalls, FALSE, TRUE, TRUE)

\* a_ == b_ of two matrices of one shape
EqMatrix(a_, b_) ==
    Matrix(a_.shape[1], a_.shape[2],
           [i \in 1..a_.shape[1] |-> [j \in 1..a_.shape[2] |-> a_.rows[i][j] = b_.rows[i][j]]])

\* the slices the last loop of diff_aligned_2d sets to False for one signature,
\* from part k on
RECURSIVE MaskedSlices(_, _, _)
MaskedSlices(parts, k, offset) ==
    IF k > Len(parts) THEN {}
    ELSE IF ~parts[k].eq
    THEN ((offset + 1)..(offset + parts[k].size_a + parts[k].size_b))
            \cup MaskedSlices(parts, k + 1, offset + parts[k].size_a + parts[k].size_b)
    ELSE MaskedSlices(parts, k + 1, offset + parts[k].size_a)

MaskedRowsOnly(eq_matrix, row_sig_, col_sig_) ==
    Matrix(eq_matrix.shape[1], eq_matrix.shape[2],
           [i \in 1..eq_matrix.shape[1] |-> [j \in 1..eq_matrix.shape[2] |->
                /\ eq_matrix.rows[i][j]
                /\ i \notin MaskedSlices(row_sig_.parts, 1, 0)]])

\* eq_matrix after the loop over both signatures
Masked(eq_matrix, row_sig_, col_sig_) ==
    Matrix(eq_matrix.shape[1], eq_matrix.shape[2],
           [i \in 1..eq_matrix.shape[1] |-> [j \in 1..eq_matrix.shape[2] |->
                /\ eq_matrix.rows[i][j]
                /\ i \notin MaskedSlices(row_sig_.parts, 1, 0)
                /\ j \notin MaskedSlices(col_sig_.parts, 1, 0)]])

NumpyDiff(a_, b_, eq, row_diff_sig, col_diff_sig_) ==
    [a |-> a_, b |-> b_, eq |-> eq, row_diff_sig |-> row_diff_sig,
     col_diff_sig |-> col_diff_sig_]

\* the end of diff_aligned_2d: rows and columns inflated, the eq matrix made
AlignedResult(a_, b_, fill_, row_sig_, col_sig_, rows_first) ==
    LET Second(second) ==
            NumpyDiff(second.a, second.b,
                      Masked(EqMatrix(second.a, second.b), row_sig_, col_sig_),
                      row_sig_, col_sig_)
        First(first) ==
            Second(align_inflate(first.a, first.b, fill_,
                                 IF rows_first THEN col_sig_ ELSE row_sig_,
                                 IF rows_first THEN 1 ELSE 0))
    IN First(align_inflate(a_, b_, fill_, IF rows_first THEN row_sig_ ELSE col_sig_,
                           IF rows_first THEN 0 ELSE 1))

\* if col_diff_sig: a signature that is not None and has a length above 0
SignatureGiven(col_diff_sig_) == ~col_diff_sig_.isNone /\ SignatureLen(col_diff_sig_) > 0

\* diff_aligned_2d with eq=None; returns Raised(...) or Returned(the NumpyDiff)
diff_aligned_2d(a_, b_, fill_, mr, mc, mcalls, col_diff_sig_, kernel_) ==
    IF SignatureGiven(col_diff_sig_)
    THEN LET min_ratio_ == pop_optional(mr)
             max_cost_ == pop_optional(mc)
             max_calls_ == pop_optional(mcalls)
             min_ratio_row == pop_optional(min_ratio_.pass).here
             max_cost_row == pop_optional(max_cost_.pass).here
             mask == ColumnMask(col_diff_sig_.parts, 1)
             OfRaw(raw_diff) ==
                 IF raw_diff.raised # "" THEN Raised(raw_diff.raised)
                 ELSE Returned(AlignedResult(a_, b_, fill_,
                                             NestedDiffSignature(raw_diff.value).value,
                                             col_diff_sig_, FALSE))
             OfInflated(inflated) ==
                 OfRaw(diff_2d(inflated.a, inflated.b, mask,
                               AcceptOfRows(min_ratio_row, max_cost_row,
                                            SumTo(mask, Len(mask))),
                               min_ratio_.here, max_cost_.here, max_calls_.here, kernel_))
         IN OfInflated(align_inflate(a_, b_, fill_, col_diff_sig_, 1))
    ELSE LET OfSignatures(signatures) ==
                 IF signatures.raised # "" THEN Raised(signatures.raised)
                 ELSE Returned(AlignedResult(a_, b_, fill_, signatures.value.row_sig,
                                             signatures.value.col_sig, TRUE))
         IN OfSignatures(get_row_col_diff(a_, b_, mr, mc, mcalls))

\* NumpyDiff.ratio, as a pair
NumpyRatio(self_) ==
    LET parts == self_.row_diff_sig.parts
        total == SumSizeA(parts, Len(parts)) + SumSizeB(parts, Len(parts))
        eq == SumTo([k \in DOMAIN parts |->
                        IF parts[k].eq THEN parts[k].size_a + parts[k].size_b ELSE 0],
                    Len(parts))
    IN IF eq = 0 /\ total = 0 THEN <<1, 1>> ELSE <<eq, total>>

\* aligned_mask.astype(int) + equal_mask of one row
KeyOf(aligned, equal) == (IF aligned THEN 1 ELSE 0) + (IF equal THEN 1 ELSE 0)

\* groupby over the keys of the rows, from row k on: the runs [key, offset, to]
RECURSIVE GroupBy(_, _, _)
GroupBy(keys, k, groups) ==
    IF k > Len(keys) THEN groups
    ELSE IF Len(groups) > 0 /\ groups[Len(groups)].key = keys[k]
    THEN GroupBy(keys, k + 1, [groups EXCEPT ![Len(groups)].to = k])
    ELSE GroupBy(keys, k + 1, Append(groups, [key |-> keys[k], offset |-> k - 1, to |-> k]))

\* items[offset:to][mask[offset:to]]
MaskedRows(items, mask, offset, to) ==
    Kept(items, {k \in (offset + 1)..to : mask[k]}, 1)

\* the groups of rows to_plain makes
PlainGroups(self_) ==
    LET len == self_.a.shape[1]
        rows == align_inflate_1d(Full(len, TRUE), Full(self_.b.shape[1], TRUE), FALSE,
                                 self_.row_diff_sig)
        keys == [i \in 1..len |->
                    KeyOf(rows.a[i] /\ rows.b[i],
                          \A j \in 1..self_.eq.shape[2] : self_.eq.rows[i][j])]
    IN [rows |-> rows, groups |-> GroupBy(keys, 1, <<>>)]

\* NumpyDiff.to_plain: the eq of a chunk is False, True or the rows of eq
to_plain(self_) ==
    LET g == PlainGroups(self_)
    IN Diff(NumpyRatio(self_),
            Diffs([k \in DOMAIN g.groups |->
                LET offset == g.groups[k].offset
                    to == g.groups[k].to
                    key == g.groups[k].key
                IN Chunk(MaskedRows(self_.a.rows, g.rows.a, offset, to),
                         MaskedRows(self_.b.rows, g.rows.b, offset, to),
                         IF key = 0 THEN EqBool(FALSE)
                         ELSE IF key = 2 THEN EqBool(TRUE)
                         ELSE EqList(PySlice(self_.eq.rows, offset, to)))]))

(***************************************************************************)
(* diff_aligned_2d as a state machine: a call on two matrices, with or     *)
(* without the signature of the columns, then to_plain() of the NumpyDiff  *)
(* returned.  A signature given fits the columns of the two matrices.      *)
(***************************************************************************)
AlignedMinRatios == {Scalar(MIN_RATIO), Scalar(500)}

\* the signatures of the columns a caller gives: None, or parts that are not empty
ColumnSignatures(a_, b_) ==
    {NoSignature} \cup {s \in Signatures(a_.shape[2], b_.shape[2]) :
                            /\ Len(s.parts) > 0
                            /\ \A k \in DOMAIN s.parts : PartLen(s.parts[k]) > 0}

InitAligned ==
    /\ pc = "start"
    /\ a \in Matrices
    /\ b \in Matrices
    /\ fill = 0    \* a value the matrices hold as well
    /\ min_ratio \in AlignedMinRatios
    /\ max_cost = Scalar(MAX_COST)
    /\ max_calls = Scalar(MAX_CALLS)
    /\ col_diff_sig \in ColumnSignatures(a, b)
    /\ kernel = IF col_diff_sig.isNone THEN "py" ELSE "c"
    /\ n = 0 /\ m = 0 /\ oracle = <<>> /\ accept = 0
    /\ eq_only = FALSE /\ rtn_diff = TRUE /\ strict = TRUE
    /\ out = None /\ cost = -1 /\ exit = "none"
    /\ result = NoResult /\ got_a = NoResult /\ got_b = NoResult
    /\ heap = <<>> /\ max_depth = 2
    /\ sig = <<>> /\ dim = 0 /\ in_row_diff = <<>>
    /\ plain = [raised |-> "none"]
    /\ row_sig = NoResult /\ col_sig = NoResult
    /\ NoCoarse

DiffAligned2d ==
    /\ pc = "start"
    /\ result' = diff_aligned_2d(a, b, fill, min_ratio, max_cost, max_calls, col_diff_sig,
                                 kernel)
    /\ pc' = "aligned"
    /\ UNCHANGED <<n, m, oracle, accept, max_cost, max_calls, eq_only, out, cost, exit,
                   a, b, min_ratio, rtn_diff, strict, got_a, got_b, heap, max_depth>>
    /\ UNCHANGED <<numpy_vars, coarse_vars>>

ToPlain ==
    /\ pc = "aligned"
    /\ result.raised = ""
    /\ plain' = Returned(to_plain(result.value))
    /\ pc' = "plain"
    /\ UNCHANGED <<n, m, oracle, accept, max_cost, max_calls, eq_only, out, cost, exit,
                   a, b, min_ratio, rtn_diff, strict, result, got_a, got_b, heap,
                   max_depth>>
    /\ UNCHANGED <<fill, sig, dim, in_row_diff, col_diff_sig, row_sig, col_sig, kernel>>
    /\ UNCHANGED coarse_vars

NextAligned == DiffAligned2d \/ ToPlain

SpecAligned == InitAligned /\ [][NextAligned]_vars

(***************************************************************************)
(* What the claims on diff_aligned_2d and to_plain speak of.               *)
(***************************************************************************)
Aligned == pc \in {"aligned", "plain"} /\ result.raised = ""

\* the inflated positions the parts of a signature cover, a part covering
\* len(part) positions, and those of them in disaligned parts
RECURSIVE StartOfPart(_, _)
StartOfPart(parts, k) ==
    IF k = 1 THEN 0
    ELSE StartOfPart(parts, k - 1)
            + (IF parts[k - 1].eq THEN parts[k - 1].size_a
               ELSE parts[k - 1].size_a + parts[k - 1].size_b)

Disaligned(parts) ==
    UNION {{StartOfPart(parts, k) + i : i \in 1..(parts[k].size_a + parts[k].size_b)} :
           k \in {p \in DOMAIN parts : ~parts[p].eq}}

\* C15: in every result of diff_aligned_2d, with or without a column signature
\* given, every cell of eq on a row of a disaligned part of the row signature is
\* False, and so is every cell on a column of a disaligned part of the column
\* signature, whatever a and b hold there.
C15_DisalignedFalse ==
    Aligned =>
        LET r == result.value
        IN /\ r.eq.shape = r.a.shape /\ r.eq.shape = r.b.shape
           /\ r.eq.shape = <<SignatureLen(r.row_diff_sig), SignatureLen(r.col_diff_sig)>>
           /\ \A i \in 1..r.eq.shape[1] : \A j \in 1..r.eq.shape[2] :
                (i \in Disaligned(r.row_diff_sig.parts)
                    \/ j \in Disaligned(r.col_diff_sig.parts)) => ~r.eq.rows[i][j]

\* a result with a disaligned row and a disaligned column whose crossing cell,
\* and another cell of the column, hold the same value in both inflated matrices
C15_Witness ==
    /\ Aligned
    /\ LET r == result.value
       IN \E i \in Disaligned(r.row_diff_sig.parts) :
          \E j \in Disaligned(r.col_diff_sig.parts) :
          \E i2 \in (1..r.eq.shape[1]) \ Disaligned(r.row_diff_sig.parts) :
          \E j2 \in (1..r.eq.shape[2]) \ Disaligned(r.col_diff_sig.parts) :
            /\ r.a.rows[i][j] = r.b.rows[i][j]
            /\ r.a.rows[i2][j] = r.b.rows[i2][j]
            /\ r.a.rows[i][j2] = r.b.rows[i][j2]
            /\ r.eq.rows[i2][j2]

Plained == pc = "plain" /\ result.raised = ""

\* the chunk of to_plain that holds inflated row i
ChunkOfRow(i) ==
    LET groups == PlainGroups(result.value).groups
        k == CHOOSE g \in DOMAIN groups : groups[g].offset < i /\ i <= groups[g].to
    IN plain.value.diffs.list[k]

RowDisaligned(i) == i \in Disaligned(result.value.row_diff_sig.parts)
RowEqual(i) == \A j \in 1..result.value.eq.shape[2] : result.value.eq.rows[i][j]

\* how to_plain is claimed to class the rows
RowsClassed ==
    \A i \in 1..result.value.eq.shape[1] :
        LET eq == ChunkOfRow(i).eq
        IN /\ (eq = EqBool(FALSE)) <=> RowDisaligned(i)
           /\ (eq = EqBool(TRUE)) <=> (~RowDisaligned(i) /\ RowEqual(i))
           /\ eq.isList <=> (~RowDisaligned(i) /\ ~RowEqual(i))

\* C18: to_plain puts an inflated row into a chunk with eq=False if and only if
\* the row lies in a disaligned part of the row signature, into a chunk with
\* eq=True if and only if the row is aligned and all of its cells are equal, and
\* into a chunk that carries the rows of eq otherwise, for matrices of every
\* shape, those of no columns included.
C18_RowsClassed == Plained => RowsClassed

\* the same for results that have a column
C18_RowsClassedWithColumns ==
    (Plained /\ result.value.eq.shape[2] > 0) => RowsClassed

(***************************************************************************)
(* Coarse diffs: iter_compressed_chunks, iter_coarse_chunks and            *)
(* Diff.get_coarse, on chunks whose eq is a boolean.                       *)
(***************************************************************************)
ChunkAddAny(x, y) == Chunk(x.data_a \o y.data_a, x.data_b \o y.data_b, x.eq \/ y.eq)

\* Chunk.__add__
ChunkAdd(x, y) == Chunk(x.data_a \o y.data_a, x.data_b \o y.data_b, x.eq /\ y.eq)

\* reduce(add, group) of a group that is not empty
RECURSIVE ReduceChunks(_, _, _)
ReduceChunks(group, k, acc) ==
    IF k > Len(group) THEN acc ELSE ReduceChunks(group, k + 1, ChunkAdd(acc, group[k]))

reduce_chunks(group) == ReduceChunks(group, 2, group[1])

\* itertools.groupby(chunks, key=lambda i: i.eq), every group reduced; group is
\* the open group
RECURSIVE CompressLoop(_, _, _, _)
CompressLoop(chunks, k, group, compressed) ==
    IF k > Len(chunks)
    THEN IF Len(group) > 0 THEN Append(compressed, reduce_chunks(group)) ELSE compressed
    ELSE IF Len(group) > 0 /\ group[1].eq # chunks[k].eq
    THEN CompressLoop(chunks, k + 1, <<chunks[k]>>, Append(compressed, reduce_chunks(group)))
    ELSE CompressLoop(chunks, k + 1, Append(group, chunks[k]), compressed)

iter_compressed_chunks(chunks) == CompressLoop(chunks, 1, <<>>, <<>>)

IsLongOrEqual(chunk, consume_size_) == chunk.eq /\ Len(chunk.data_a) >= consume_size_

\* chunk.eq and len(chunk.data_a) > consume_size
IsLong(chunk, consume_size_) == chunk.eq /\ Len(chunk.data_a) > consume_size_

RECURSIVE CoarseLoop(_, _, _, _, _)
CoarseLoop(compressed, consume_size_, k, buffer, yielded) ==
    IF k > Len(compressed)
    THEN IF Len(buffer) > 0 THEN Append(yielded, reduce_chunks(buffer)) ELSE yielded
    ELSE IF IsLong(compressed[k], consume_size_)
    THEN CoarseLoop(compressed, consume_size_, k + 1, <<>>,
                    Append(IF Len(buffer) > 0 THEN Append(yielded, reduce_chunks(buffer))
                           ELSE yielded,
                           compressed[k]))
    ELSE CoarseLoop(compressed, consume_size_, k + 1, Append(buffer, compressed[k]), yielded)

iter_coarse_chunks(chunks, consume_size_) ==
    CoarseLoop(iter_compressed_chunks(chunks), consume_size_, 1, <<>>, <<>>)

\* Diff.get_coarse of a Diff that has chunks
get_coarse(self_, consume_size_) ==
    Diff(self_.ratio, Diffs(iter_coarse_chunks(self_.diffs.list, consume_size_)))

(***************************************************************************)
(* get_coarse as a state machine: a Diff of a few chunks, get_coarse of    *)
(* it, and get_coarse of the Diff that was returned.                       *)
(***************************************************************************)
MaxChunks == 4
MaxRun == 3

CoarseChunks ==
    {Chunk(s, s, TRUE) : s \in {<<>>, <<0>>, <<0, 1>>}}
        \cup {Chunk(<<2>>, <<>>, FALSE), Chunk(<<>>, <<3>>, FALSE), Chunk(<<2>>, <<3>>, FALSE)}

CoarseDiffs(len) == {Diff(<<1, 2>>, Diffs(list)) : list \in [1..len -> CoarseChunks]}

InitCoarse ==
    /\ pc = "start"
    /\ \E len \in 0..MaxChunks : self \in CoarseDiffs(len)
    /\ consume_size \in 0..MaxRun
    /\ coarse = NoResult
    /\ NoImportant
    /\ n = 0 /\ m = 0 /\ oracle = <<>> /\ accept = 0
    /\ max_cost = 0 /\ max_calls = 0 /\ eq_only = FALSE
    /\ out = None /\ cost = -1 /\ exit = "none"
    /\ a = <<>> /\ b = <<>>
    /\ min_ratio = 0 /\ rtn_diff = FALSE /\ strict = FALSE
    /\ result = NoResult /\ got_a = NoResult /\ got_b = NoResult
    /\ heap = <<>> /\ max_depth = 0
    /\ NoNumpy

\* coarse = self.get_coarse(consume_size)
GetCoarse ==
    /\ pc = "start"
    /\ coarse' = Returned(get_coarse(self, consume_size))
    /\ pc' = "coarse"
    /\ UNCHANGED <<n, m, oracle, accept, max_cost, max_calls, eq_only, out, cost, exit,
                   a, b, min_ratio, rtn_diff, strict, result, got_a, got_b, heap,
                   max_depth, numpy_vars, self, consume_size, context_size, important,
                   budget_vars>>

\* get_coarse of the Diff returned: that Diff is self now, result the Diff it
\* was made from
GetCoarseAgain ==
    /\ pc = "coarse"
    /\ result' = Returned(self)
    /\ self' = coarse.value
    /\ coarse' = Returned(get_coarse(coarse.value, consume_size))
    /\ pc' = "again"
    /\ UNCHANGED <<n, m, oracle, accept, max_cost, max_calls, eq_only, out, cost, exit,
                   a, b, min_ratio, rtn_diff, strict, got_a, got_b, heap,
                   max_depth, numpy_vars, consume_size, context_size, important,
                   budget_vars>>

NextCoarse == GetCoarse \/ GetCoarseAgain

SpecCoarse == InitCoarse /\ [][NextCoarse]_vars

(***************************************************************************)
(* What the claims on get_coarse speak of.                                 *)
(***************************************************************************)
\* C19: get_coarse is idempotent: get_coarse(k) of the Diff get_coarse(k)
\* returned equals that Diff, for every Diff of boolean chunks and every k >= 0.
C19_Idempotent == pc = "again" => coarse.value = self

\* the second call had chunks to merge before the first: the Diff given had a
\* short equal run between unequal chunks, and a long equal run
C19_Witness ==
    /\ pc = "again"
    /\ Len(self.diffs.list) >= 2
    /\ Len(self.diffs.list) < Len(result.value.diffs.list)
    /\ \E k \in DOMAIN self.diffs.list : IsLong(self.diffs.list[k], consume_size)
    /\ \E k \in DOMAIN result.value.diffs.list :
         /\ result.value.diffs.list[k].eq
         /\ Len(result.value.diffs.list[k].data_a) > 0
         /\ ~IsLong(result.value.diffs.list[k], consume_size)


\* the chunks get_coarse was given and the chunks of the Diff it returned
Given == self.diffs.list
Coarse == coarse.value.diffs.list

\* the run of adjacent chunks of one eq that chunk c of Given lies in
RunOf(c) == 1 + Cardinality({t \in 2..c : Given[t].eq # Given[t - 1].eq})
RunChunks(r) == {c \in DOMAIN Given : RunOf(c) = r}
RunLength(r) == SumTo([c \in DOMAIN Given |-> IF RunOf(c) = r THEN Len(Given[c].data_a) ELSE 0],
                      Len(Given))
LongRun(r) == (\A c \in RunChunks(r) : Given[c].eq) /\ RunLength(r) > consume_size

\* the place in the output of chunk c: a new output chunk starts where a long
\* equal run starts or ends
PlaceOf(c) ==
    1 + Cardinality({t \in 2..c : /\ RunOf(t) # RunOf(t - 1)
                                  /\ LongRun(RunOf(t - 1)) \/ LongRun(RunOf(t))})
Pieces(j) == {c \in DOMAIN Given : PlaceOf(c) = j}
PiecesA(j) == Concat([c \in DOMAIN Given |-> IF PlaceOf(c) = j THEN Given[c].data_a ELSE <<>>], 1)
PiecesB(j) == Concat([c \in DOMAIN Given |-> IF PlaceOf(c) = j THEN Given[c].data_b ELSE <<>>], 1)

\* C20: get_coarse(k) keeps ratio, get_a() and get_b(); every equal run longer
\* than k is an output chunk of its own with eq True, and every maximal stretch
\* of chunks between two such runs, before the first or after the last, is one
\* output chunk, made of the data of its pieces, whose eq is True only if every
\* piece was equal.
C20_CoarseChunks ==
    pc \in {"coarse", "again"} =>
        /\ coarse.raised = ""
        /\ coarse.value.ratio = self.ratio
        /\ get_a(coarse.value) = get_a(self)
        /\ get_b(coarse.value) = get_b(self)
        /\ Len(Coarse) = IF Len(Given) = 0 THEN 0 ELSE PlaceOf(Len(Given))
        /\ \A c \in DOMAIN Given :
             LongRun(RunOf(c)) =>
                 /\ Pieces(PlaceOf(c)) = RunChunks(RunOf(c))
                 /\ Coarse[PlaceOf(c)].eq = TRUE
        /\ \A j \in DOMAIN Coarse :
             /\ Pieces(j) # {}
             /\ Coarse[j].data_a = PiecesA(j)
             /\ Coarse[j].data_b = PiecesB(j)
             /\ Coarse[j].eq = (\A c \in Pieces(j) : Given[c].eq)

\* a long equal run kept as a chunk of its own, after a stretch of three
\* chunks, one of them a short equal chunk, merged into one unequal chunk
C20_Witness ==
    /\ pc = "coarse"
    /\ Len(Given) = 4
    /\ Len(Coarse) = 2
    /\ consume_size >= 1
    /\ \E c \in DOMAIN Given :
         /\ LongRun(RunOf(c))
         /\ Cardinality(RunChunks(RunOf(c))) = 1
         /\ \E s \in DOMAIN Given : PlaceOf(s) # PlaceOf(c) /\ Given[s].eq
                                    /\ Len(Given[s].data_a) > 0
    /\ ~Coarse[1].eq
    /\ Coarse[2].eq

(***************************************************************************)
(* get_coarse of chunks whose eq is a boolean (EqBool) or a list of nested *)
(* diffs (EqList): Chunk.__add__ raises TypeError when either eq is a      *)
(* list, groupby compares the eq of adjacent chunks, and a list is true    *)
(* when it has items.                                                      *)
(***************************************************************************)
\* Chunk.__add__ on the result so far: Raised("TypeError") when either eq is
\* not a bool
chunk_add(acc, y) ==
    IF acc.raised # "" THEN acc
    ELSE IF acc.value.eq.isList \/ y.eq.isList THEN Raised("TypeError")
    ELSE Returned(Chunk(acc.value.data_a \o y.data_a, acc.value.data_b \o y.data_b,
                        EqBool(acc.value.eq.truth /\ y.eq.truth)))

\* list(iter_coarse_chunks(chunks, consume_size)): Returned(the chunks), or
\* Raised when an addition raised
iter_coarse_chunks_nested(chunks, consume_size_) ==
    LET Reduce(group) ==
            LET red[k \in 1..Len(group)] ==
                    IF k = 1 THEN Returned(group[1]) ELSE chunk_add(red[k - 1], group[k])
            IN  red[Len(group)]
        Flush(group, done) == IF Len(group) > 0 THEN Append(done, Reduce(group)) ELSE done
        ValuesOf(done) == [k \in DOMAIN done |-> done[k].value]
        Raises(done) == \E k \in DOMAIN done : done[k].raised # ""
        \* iter_compressed_chunks: (open group, chunks yielded) after k chunks
        Grouped[k \in 0..Len(chunks)] ==
            IF k = 0 THEN <<<<>>, <<>>>>
            ELSE IF Len(Grouped[k - 1][1]) > 0 /\ Grouped[k - 1][1][1].eq # chunks[k].eq
            THEN <<<<chunks[k]>>, Flush(Grouped[k - 1][1], Grouped[k - 1][2])>>
            ELSE <<Append(Grouped[k - 1][1], chunks[k]), Grouped[k - 1][2]>>
        \* the loop of iter_coarse_chunks: (buffer, chunks yielded) after k
        \* compressed chunks
        Coarsened(compressed) ==
            LET loop[k \in 0..Len(compressed)] ==
                    IF k = 0 THEN <<<<>>, <<>>>>
                    ELSE IF Truthy(compressed[k].eq) /\ Len(compressed[k].data_a) > consume_size_
                    THEN <<<<>>, Append(Flush(loop[k - 1][1], loop[k - 1][2]),
                                        Returned(compressed[k]))>>
                    ELSE <<Append(loop[k - 1][1], compressed[k]), loop[k - 1][2]>>
            IN  Flush(loop[Len(compressed)][1], loop[Len(compressed)][2])
        Finish(done) == IF Raises(done) THEN Raised("TypeError") ELSE Returned(ValuesOf(done))
        OfCompressed(done) ==
            IF Raises(done) THEN Raised("TypeError") ELSE Finish(Coarsened(ValuesOf(done)))
    IN  OfCompressed(Flush(Grouped[Len(chunks)][1], Grouped[Len(chunks)][2]))

\* Diff.get_coarse of a Diff that has chunks
get_coarse_nested(self_, consume_size_) ==
    LET Return(chunks) ==
            IF chunks.raised # "" THEN chunks
            ELSE Returned(Diff(self_.ratio, Diffs(chunks.value)))
    IN  Return(iter_coarse_chunks_nested(self_.diffs.list, consume_size_))

\* a nested diff of one pair of items; the items 4 and 5 of the chunks below
\* stand for the two containers it compares
InnerDiff == Diff(<<1, 2>>, Diffs(<<Chunk(<<1>>, <<2>>, EqBool(FALSE))>>))

NestedChunks ==
    {Chunk(s, s, EqBool(TRUE)) : s \in {<<0>>, <<0, 1>>}}
        \cup {Chunk(<<2>>, <<>>, EqBool(FALSE)), Chunk(<<>>, <<3>>, EqBool(FALSE))}
        \cup {Chunk(<<4>>, <<5>>, EqList(<<DigDiff(InnerDiff)>>)),
              Chunk(<<4, 6>>, <<5, 6>>, EqList(<<DigDiff(InnerDiff), DigBool(TRUE)>>))}

NestedDiffs(len) == {Diff(<<1, 2>>, Diffs(list)) : list \in [1..len -> NestedChunks]}

InitCoarseNested ==
    /\ pc = "start"
    /\ \E len \in 0..MaxChunks : self \in NestedDiffs(len)
    /\ consume_size \in 0..MaxRun
    /\ coarse = NoResult
    /\ NoImportant
    /\ n = 0 /\ m = 0 /\ oracle = <<>> /\ accept = 0
    /\ max_cost = 0 /\ max_calls = 0 /\ eq_only = FALSE
    /\ out = None /\ cost = -1 /\ exit = "none"
    /\ a = <<>> /\ b = <<>>
    /\ min_ratio = 0 /\ rtn_diff = FALSE /\ strict = FALSE
    /\ result = NoResult /\ got_a = NoResult /\ got_b = NoResult
    /\ heap = <<>> /\ max_depth = 0
    /\ NoNumpy

\* coarse = self.get_coarse(consume_size), or the exception it raised
GetCoarseNested ==
    /\ pc = "start"
    /\ coarse' = get_coarse_nested(self, consume_size)
    /\ pc' = "coarse"
    /\ UNCHANGED <<n, m, oracle, accept, max_cost, max_calls, eq_only, out, cost, exit,
                   a, b, min_ratio, rtn_diff, strict, result, got_a, got_b, heap,
                   max_depth, numpy_vars, self, consume_size, context_size, important,
                   budget_vars>>

NextCoarseNested == GetCoarseNested

SpecCoarseNested == InitCoarseNested /\ [][NextCoarseNested]_vars

\* the chunks with a list eq, in order, and the data before the j-th of them
ListChunks(chunks) == SelectSeq(chunks, LAMBDA c : c.eq.isList)
ListPlaces(chunks) == {k \in DOMAIN chunks : chunks[k].eq.isList}
DataBefore(chunks, k) == Concat([c \in DOMAIN chunks |-> IF c < k THEN chunks[c].data_a ELSE <<>>], 1)
DataBeforeLists(chunks) == {DataBefore(chunks, k) : k \in ListPlaces(chunks)}

\* C21: get_coarse(k) of a Diff with list-eq chunks next to boolean chunks
\* returns a Diff in which every list-eq chunk is a chunk of its own, unchanged
\* and in order, and no output chunk spans data from both sides of it.
C21_NestedSealed ==
    pc = "coarse" =>
        /\ coarse.raised = ""
        /\ ListChunks(coarse.value.diffs.list) = ListChunks(self.diffs.list)
        /\ DataBeforeLists(coarse.value.diffs.list) = DataBeforeLists(self.diffs.list)

(***************************************************************************)
(* Diff.iter_important: the values it yields, in order.  A value is an     *)
(* Item or an integer; a field of an Item is None or a value, <<>> or      *)
(* <<value>> here.  The generator context_tail is the sequence of values   *)
(* it has still to yield.                                                  *)
(***************************************************************************)
Some(value) == <<value>>
NoValue == <<>>

\* Item(a=, b=, ix_a=, ix_b=, diff=)
Item(a_, b_, ix_a, ix_b, diff_) == [isInt |-> FALSE, a |-> a_, b |-> b_, ix_a |-> ix_a, ix_b |-> ix_b, diff |-> diff_]
SkippedShort(gap) == [isInt |-> TRUE, skip |-> gap - 1]

\* an integer yielded
Skipped(gap) == [isInt |-> TRUE, skip |-> gap]

RECURSIVE ImportantLoop(_, _, _, _, _, _, _)
ImportantLoop(chunks, context_size_, i_chunk, counter_a, counter_b, context_tail, yielded) ==
    LET \* zip(enumerate(data_a[gap:end], counter_a + gap), enumerate(data_b[gap:end], ...))
        Pairs(chunk, gap, end) ==
            [t \in 1..Max(0, Min(Min(Len(chunk.data_a), end), Min(Len(chunk.data_b), end)) - gap) |->
                Item(Some(chunk.data_a[gap + t]), Some(chunk.data_b[gap + t]),
                     Some(counter_a + gap + t - 1), Some(counter_b + gap + t - 1), NoValue)]
        \* _head
        HeadOf(chunk) == Pairs(chunk, 0, context_size_)
        \* _tail
        TailOf(chunk, head_size) ==
            LET gap == Len(chunk.data_a) - context_size_ - head_size
            IN  IF gap > 0
                THEN <<Skipped(gap)>> \o Pairs(chunk, gap + head_size, Len(chunk.data_a))
                ELSE Pairs(chunk, head_size, Len(chunk.data_a))
        OnlyA(chunk) ==
            [t \in 1..Len(chunk.data_a) |->
                Item(Some(chunk.data_a[t]), NoValue, Some(counter_a + t - 1), NoValue, NoValue)]
        OnlyB(chunk) ==
            [t \in 1..Len(chunk.data_b) |->
                Item(NoValue, Some(chunk.data_b[t]), NoValue, Some(counter_b + t - 1), NoValue)]
        AlignedItems(chunk) ==
            [t \in 1..Min(Min(Len(chunk.data_a), Len(chunk.data_b)), Len(chunk.eq.items)) |->
                Item(Some(chunk.data_a[t]), Some(chunk.data_b[t]),
                     Some(counter_a + t - 1), Some(counter_b + t - 1), Some(chunk.eq.items[t]))]
        Continue(chunk, tail, values) ==
            ImportantLoop(chunks, context_size_, i_chunk + 1, counter_a + Len(chunk.data_a),
                          counter_b + Len(chunk.data_b), tail, values)
        Step(chunk) ==
            IF ~chunk.eq.isList
            THEN IF chunk.eq.truth
                 THEN Continue(chunk,
                               TailOf(chunk, IF i_chunk # 0 THEN context_size_ ELSE 0),
                               IF i_chunk # 0 THEN yielded \o HeadOf(chunk) ELSE yielded)
                 ELSE Continue(chunk, <<>>, yielded \o context_tail \o OnlyA(chunk) \o OnlyB(chunk))
            ELSE Continue(chunk, <<>>, yielded \o context_tail \o AlignedItems(chunk))
        \* sum(i if isinstance(i, int) else 1 for i in context_tail)
        leftover == SumTo([t \in DOMAIN context_tail |->
                              IF context_tail[t].isInt THEN context_tail[t].skip ELSE 1],
                          Len(context_tail))
    IN  IF i_chunk >= Len(chunks)
        THEN IF leftover # 0 THEN Append(yielded, Skipped(leftover)) ELSE yielded
        ELSE Step(chunks[i_chunk + 1])

iter_important_gap(self_, context_size_) ==
    ImportantLoop(self_.diffs.list, context_size_, 0, 0, 0, <<Skipped(0)>>, <<>>)

\* list(self.iter_important(context_size))
iter_important(self_, context_size_) ==
    ImportantLoop(self_.diffs.list, context_size_, 0, 0, 0, <<>>, <<>>)

ImportantChunks ==
    {Chunk(s, s, EqBool(TRUE)) : s \in {<<0>>, <<0, 1>>, <<0, 1, 0>>}}
        \cup {Chunk(<<2>>, <<>>, EqBool(FALSE)), Chunk(<<>>, <<3>>, EqBool(FALSE)),
              Chunk(<<2>>, <<3>>, EqBool(FALSE))}
        \cup {Chunk(<<4>>, <<5>>, EqList(<<DigDiff(InnerDiff)>>))}

ImportantDiffs(len) == {Diff(<<1, 2>>, Diffs(list)) : list \in [1..len -> ImportantChunks]}

InitImportant ==
    /\ pc = "start"
    /\ \E len \in 0..MaxChunks : self \in ImportantDiffs(len)
    /\ context_size \in 0..MaxRun
    /\ important = <<>>
    /\ NoBudgets
    /\ consume_size = 0 /\ coarse = NoResult
    /\ n = 0 /\ m = 0 /\ oracle = <<>> /\ accept = 0
    /\ max_cost = 0 /\ max_calls = 0 /\ eq_only = FALSE
    /\ out = None /\ cost = -1 /\ exit = "none"
    /\ a = <<>> /\ b = <<>>
    /\ min_ratio = 0 /\ rtn_diff = FALSE /\ strict = FALSE
    /\ result = NoResult /\ got_a = NoResult /\ got_b = NoResult
    /\ heap = <<>> /\ max_depth = 0
    /\ NoNumpy

\* important = list(self.iter_important(context_size))
IterImportant ==
    /\ pc = "start"
    /\ important' = iter_important(self, context_size)
    /\ pc' = "important"
    /\ UNCHANGED <<n, m, oracle, accept, max_cost, max_calls, eq_only, out, cost, exit,
                   a, b, min_ratio, rtn_diff, strict, result, got_a, got_b, heap,
                   max_depth, numpy_vars, self, consume_size, coarse, context_size,
                   budget_vars>>

NextImportant == IterImportant

SpecImportant == InitImportant /\ [][NextImportant]_vars

\* C22 as stated: the first value iter_important yields is never an integer.
C22_FirstNotInteger ==
    (pc = "important" /\ Len(important) > 0) => ~important[1].isInt

\* C22, amended: the first value is an integer only when the Diff starts with
\* an eq=True chunk; a Diff that starts with an unequal chunk or with a chunk
\* of nested diffs yields an Item first.
C22_FirstOfUnequal ==
    (/\ pc = "important"
     /\ Len(self.diffs.list) > 0
     /\ self.diffs.list[1].eq.isList \/ ~self.diffs.list[1].eq.truth) =>
        /\ Len(important) > 0
        /\ ~important[1].isInt

\* a Diff that starts with an unequal chunk, with an integer further on
C22_Witness ==
    /\ pc = "important"
    /\ Len(self.diffs.list) >= 3
    /\ ~self.diffs.list[1].eq.isList /\ ~self.diffs.list[1].eq.truth
    /\ context_size >= 1
    /\ ~important[1].isInt
    /\ \E t \in DOMAIN important : important[t].isInt /\ t < Len(important)

\* the chunks of self, and whether two adjacent ones are both eq=True
NoEqualNeighbours ==
    \A k \in 2..Len(self.diffs.list) :
        ~(/\ ~self.diffs.list[k - 1].eq.isList /\ self.diffs.list[k - 1].eq.truth
          /\ ~self.diffs.list[k].eq.isList /\ self.diffs.list[k].eq.truth)

\* the integers yielded, summed, and the indexes yielded, in order
SkippedTotal == SumTo([t \in DOMAIN important |-> IF important[t].isInt THEN important[t].skip ELSE 0], Len(important))
IndexesA == Concat([t \in DOMAIN important |-> IF important[t].isInt THEN <<>> ELSE important[t].ix_a], 1)
IndexesB == Concat([t \in DOMAIN important |-> IF important[t].isInt THEN <<>> ELSE important[t].ix_b], 1)
Increasing(s) == \A t \in 2..Len(s) : s[t - 1] < s[t]
LengthA == SumTo([k \in DOMAIN self.diffs.list |-> Len(self.diffs.list[k].data_a)], Len(self.diffs.list))
LengthB == SumTo([k \in DOMAIN self.diffs.list |-> Len(self.diffs.list[k].data_b)], Len(self.diffs.list))

\* C29: for a Diff with no two consecutive eq=True chunks and every
\* context_size >= 0, the Items with ix_a set and the integers yielded add up
\* to len(a), those with ix_b set and the integers to len(b), and the ix_a and
\* the ix_b yielded are strictly increasing.
C29_EveryPositionOnce ==
    (pc = "important" /\ NoEqualNeighbours) =>
        /\ Len(IndexesA) + SkippedTotal = LengthA
        /\ Len(IndexesB) + SkippedTotal = LengthB
        /\ Increasing(IndexesA)
        /\ Increasing(IndexesB)

\* an equal chunk of three items between two unequal chunks, with a context
\* of one: a head, a gap and a tail
C29_Witness ==
    /\ pc = "important"
    /\ NoEqualNeighbours
    /\ context_size = 1
    /\ Len(self.diffs.list) = 4
    /\ \E t \in 2..(Len(important) - 1) :
         /\ important[t].isInt
         /\ ~important[t - 1].isInt /\ important[t - 1].ix_a # NoValue /\ important[t - 1].ix_b # NoValue
         /\ ~important[t + 1].isInt /\ important[t + 1].ix_a # NoValue /\ important[t + 1].ix_b # NoValue
    /\ important[Len(important)].isInt

(***************************************************************************)
(* Two calls of diff on the same sequences: the first under the budgets    *)
(* min_ratio and max_cost, the second under budgets at least as loose,     *)
(* min_ratio2 <= min_ratio and max_cost2 >= max_cost.                      *)
(***************************************************************************)
BudgetRatios == {0, 500, MIN_RATIO}

InitBudgets ==
    /\ pc = "start"
    /\ a \in Seqs
    /\ b \in Seqs
    /\ accept = MIN_RATIO
    /\ min_ratio \in BudgetRatios
    /\ min_ratio2 \in {r \in BudgetRatios : r <= min_ratio}
    /\ max_cost \in (0..(Len(a) + Len(b))) \cup {MAX_COST}
    /\ max_cost2 \in {c \in (0..(Len(a) + Len(b))) \cup {MAX_COST} : c >= max_cost}
    /\ max_calls \in {3, MAX_CALLS}
    /\ eq_only = FALSE
    /\ rtn_diff = TRUE
    /\ strict \in BOOLEAN
    /\ n = Len(a) /\ m = Len(b)
    /\ oracle = PairOracle(a, b)
    /\ out = None
    /\ cost = -1
    /\ exit = "none"
    /\ result = NoResult /\ got_a = NoResult /\ got_b = NoResult
    /\ result2 = NoResult /\ codes_in = <<>> /\ NoEngine
    /\ heap = <<>> /\ max_depth = 0
    /\ NoNumpy
    /\ self = <<>> /\ consume_size = 0 /\ coarse = NoResult
    /\ context_size = 0 /\ important = <<>>

\* result = diff(a, b, min_ratio=min_ratio, max_cost=max_cost, ...)
DiffTight ==
    /\ pc = "start"
    /\ \E r \in {diff(a, b, accept, min_ratio, max_cost, max_calls, eq_only, rtn_diff, strict)} :
          /\ result' = IF r.raised = "" THEN Returned(r.value) ELSE Raised(r.raised)
          /\ cost' = r.cost
          /\ out' = r.codes
    /\ pc' = "tight"
    /\ UNCHANGED <<n, m, oracle, accept, max_cost, max_calls, eq_only, exit,
                   a, b, min_ratio, rtn_diff, strict, got_a, got_b>>
    /\ UNCHANGED <<heap, max_depth, numpy_vars, self, consume_size, coarse, context_size,
                   important, min_ratio2, max_cost2, result2, codes_in, engine_vars>>

\* result2 = diff(a, b, min_ratio=min_ratio2, max_cost=max_cost2, ...)
DiffLoose ==
    /\ pc = "tight"
    /\ \E r \in {diff(a, b, accept, min_ratio2, max_cost2, max_calls, eq_only, rtn_diff, strict)} :
          result2' = IF r.raised = "" THEN Returned(r.value) ELSE Raised(r.raised)
    /\ pc' = "loose"
    /\ UNCHANGED <<n, m, oracle, accept, max_cost, max_calls, eq_only, out, cost, exit,
                   a, b, min_ratio, rtn_diff, strict, result, got_a, got_b>>
    /\ UNCHANGED <<heap, max_depth, numpy_vars, self, consume_size, coarse, context_size,
                   important, min_ratio2, max_cost2, codes_in, engine_vars>>

NextBudgets == DiffTight \/ DiffLoose

SpecBudgets == InitBudgets /\ [][NextBudgets]_vars

\* ratio x is at most ratio y
RatioAtMost(x, y) == x[1] * y[2] <= y[1] * x[2]

\* C23: budget monotonicity: with min_ratio >= min_ratio2 and max_cost <=
\* max_cost2, diff under the tighter budgets never returns a higher ratio than
\* diff under the looser budgets, strict or not.
C23_BudgetMonotone ==
    pc = "loose" =>
        /\ result.raised = "" /\ result2.raised = ""
        /\ RatioAtMost(result.value.ratio, result2.value.ratio)

\* the tighter budgets made the ratio lower, without strict: the tight call
\* returns the ratio of its fallback script, the loose one a higher ratio
C23_Witness ==
    /\ pc = "loose"
    /\ ~strict
    /\ max_cost < max_cost2
    /\ result.value.ratio[1] > 0
    /\ ~RatioAtMost(result2.value.ratio, result.value.ratio)

(***************************************************************************)
(* canonize as a state machine: a buffer of codes 0..3, canonize of it,    *)
(* and canonize of the buffer once more.                                   *)
(***************************************************************************)
MaxCodes == 5

InitCanon ==
    /\ pc = "returned"
    /\ \E len \in 0..MaxCodes : codes_in \in [1..len -> 0..3]
    /\ out = Buffer(codes_in)
    /\ n = 0 /\ m = 0 /\ oracle = <<>> /\ accept = 0
    /\ max_cost = 0 /\ max_calls = 0 /\ eq_only = FALSE
    /\ cost = -1 /\ exit = "none"
    /\ a = <<>> /\ b = <<>>
    /\ min_ratio = 0 /\ rtn_diff = FALSE /\ strict = FALSE
    /\ result = NoResult /\ got_a = NoResult /\ got_b = NoResult
    /\ heap = <<>> /\ max_depth = 0
    /\ NoNumpy
    /\ self = <<>> /\ consume_size = 0 /\ coarse = NoResult
    /\ context_size = 0 /\ important = <<>>
    /\ min_ratio2 = 0 /\ max_cost2 = 0 /\ result2 = NoResult /\ NoEngine

\* canonize(out) once more: codes_in is what this call was given
CanonizeAgain ==
    /\ pc = "canonized"
    /\ codes_in' = out.codes
    /\ out' = Buffer(canonize(out.codes))
    /\ pc' = "again"
    /\ UNCHANGED <<n, m, oracle, accept, max_cost, max_calls, eq_only, cost, exit,
                   a, b, min_ratio, rtn_diff, strict, result, got_a, got_b, heap,
                   max_depth, numpy_vars, self, consume_size, coarse, context_size,
                   important, min_ratio2, max_cost2, result2, engine_vars>>

NextCanon == Canonize \/ CanonizeAgain

SpecCanon == InitCanon /\ [][NextCanon]_vars

\* the maximal run of codes 1 and 2 that position k of codes lies in, and the
\* number of codes 1 in it
RunFirst(codes, k) == CHOOSE lo \in 1..k : /\ \A t \in lo..k : codes[t] \in {1, 2}
                                           /\ lo = 1 \/ codes[lo - 1] \notin {1, 2}
RunLast(codes, k) == CHOOSE hi \in k..Len(codes) : /\ \A t \in k..hi : codes[t] \in {1, 2}
                                                   /\ hi = Len(codes) \/ codes[hi + 1] \notin {1, 2}
OnesOfRun(codes, k) == Cardinality({t \in RunFirst(codes, k)..RunLast(codes, k) : codes[t] = 1})

\* C24: canonize rewrites every maximal run of codes 1 and 2 into its 1s
\* followed by its 2s, as many of each as the run had, and leaves every 3 and 0
\* where it was; canonize of a canonized buffer changes nothing.
C24_RunsSorted ==
    pc \in {"canonized", "again"} =>
        /\ Len(out.codes) = Len(codes_in)
        /\ \A k \in DOMAIN codes_in :
             IF codes_in[k] \in {1, 2}
             THEN out.codes[k] = IF k - RunFirst(codes_in, k) < OnesOfRun(codes_in, k) THEN 1 ELSE 2
             ELSE out.codes[k] = codes_in[k]
        /\ pc = "again" => out.codes = codes_in

\* a run with a 2 before a 1 rewritten, next to a diagonal 3, 0
C24_Witness ==
    /\ pc = "canonized"
    /\ out.codes # codes_in
    /\ \E k \in 2..Len(codes_in) : codes_in[k - 1] = 2 /\ codes_in[k] = 1
    /\ \E k \in 2..Len(codes_in) : codes_in[k - 1] = 3 /\ codes_in[k] = 0

(***************************************************************************)
(* The engine, traced: a call as in SpecMyers, with the counter n_calls at *)
(* its return, the indexes of out it wrote to and the recursive calls it   *)
(* made.                                                                   *)
(***************************************************************************)
InitEngine ==
    /\ pc = "start"
    /\ \E s \in Sizes :
         /\ n = s[1]
         /\ m = s[2]
         /\ oracle \in Oracles(s[1], s[2])
         /\ max_cost \in CostBudgets(s[1], s[2])
         /\ out \in {None, FreshBuffer(s[1] + s[2])}
    /\ accept \in {MIN_RATIO, RatioUnit}
    /\ max_calls \in CallBudgets
    /\ eq_only = FALSE
    /\ cost = -1
    /\ exit = "none"
    /\ NoEngine
    /\ a = <<>> /\ b = <<>>
    /\ min_ratio = 0 /\ rtn_diff = FALSE /\ strict = FALSE
    /\ result = NoResult /\ got_a = NoResult /\ got_b = NoResult
    /\ heap = <<>> /\ max_depth = 0
    /\ NoNumpy
    /\ self = <<>> /\ consume_size = 0 /\ coarse = NoResult
    /\ context_size = 0 /\ important = <<>>
    /\ min_ratio2 = 0 /\ max_cost2 = 0 /\ result2 = NoResult /\ codes_in = <<>>

\* cost = search_graph_recursive(n, m, oracle, out, accept, max_cost, max_calls)
SearchTraced ==
    /\ pc = "start"
    /\ \E r \in {search_graph_recursive(n, m, oracle, out, accept, max_cost, max_calls,
                                        eq_only, 0, 0)} :
          /\ cost' = r.cost
          /\ out' = r.out
          /\ exit' = r.exit
          /\ n_calls' = r.n_calls
          /\ sub_calls' = r.sub_calls
          /\ written' = r.written
    /\ pc' = "returned"
    /\ UNCHANGED <<n, m, oracle, accept, max_cost, max_calls, eq_only,
                   a, b, min_ratio, rtn_diff, strict, result, got_a, got_b, heap,
                   max_depth, numpy_vars, self, consume_size, coarse, context_size,
                   important, min_ratio2, max_cost2, result2, codes_in>>

NextEngine == SearchTraced

SpecEngine == InitEngine /\ [][NextEngine]_vars

\* C25: with max_calls = K the counter n_calls, which counts the calls of the
\* oracle and the steps of the loops of the outermost call, never exceeds K.
C25_CallsWithinBudget ==
    pc = "returned" => n_calls <= max_calls


\* C25, amended: n_calls is compared with max_calls once in every iteration of
\* the loop over cost, after phase 1.  The call gives up by that check only
\* with n_calls above max_calls, and n_calls exceeds max_calls by no more than
\* the end stripping (one count for each of at most min(n, m) pairs, from 2)
\* and one phase 1 (at most one count for each cell) add.
C25_CallsChecked ==
    pc = "returned" =>
        /\ exit = "max_calls" => n_calls > max_calls
        /\ n_calls - n * m <= Max(max_calls, 2 + Min(n, m))

\* a call that gave up by max_calls = 3 after more than 3 counted calls
C25_Witness ==
    /\ pc = "returned"
    /\ exit = "max_calls"
    /\ max_calls = 3
    /\ n_calls > 4
    /\ cost > 0

\* before a call: nothing is chosen yet
IdleEngine ==
    /\ pc = "idle"
    /\ n = 0 /\ m = 0 /\ oracle = <<>> /\ accept = 0
    /\ max_cost = 0 /\ max_calls = 0 /\ eq_only = FALSE
    /\ out = None /\ cost = -1 /\ exit = "none"
    /\ a = <<>> /\ b = <<>>
    /\ min_ratio = 0 /\ rtn_diff = FALSE /\ strict = FALSE
    /\ result = NoResult /\ got_a = NoResult /\ got_b = NoResult
    /\ heap = <<>> /\ max_depth = 0
    /\ NoNumpy /\ NoCoarse

\* a caller makes a call that writes a script: out is a buffer, max_calls the
\* default
CallEngine ==
    /\ pc = "idle"
    /\ pc' = "start"
    /\ \E s \in Sizes :
         /\ n' = s[1]
         /\ m' = s[2]
         /\ oracle' \in Oracles(s[1], s[2])
         /\ max_cost' \in CostBudgets(s[1], s[2])
         /\ out' = FreshBuffer(s[1] + s[2])
    /\ accept' \in {MIN_RATIO, RatioUnit}
    /\ max_calls' = MAX_CALLS
    /\ UNCHANGED <<eq_only, cost, exit, diff_vars>>

NextEngineFair == CallEngine \/ SearchTraced

\* the step by which a call returns
Returns == pc = "start" /\ pc' = "returned"

\* the scheduling of a call: the engine is one sequential computation, and a
\* call that was made is run until it returns or never leaves its loops
SpecEngineFair == IdleEngine /\ [][NextEngineFair]_vars /\ WF_pc(Returns)

\* recursive call k was the first of the two calls its caller made
IsFirstHalf(k) == sub_calls[k].i = sub_calls[k].caller.i /\ sub_calls[k].j = sub_calls[k].caller.j

\* what held at every recursive call of the run: the caller had stripped its
\* ends, its fronts met at a cost of 2 or more, and the call was given a
\* smaller rectangle and a budget below that cost
RecursionDescends ==
    \A k \in DOMAIN sub_calls :
        LET call == sub_calls[k]
            from == call.caller
        IN  /\ from.n * from.m > 0
            /\ similarity_ratio_getter(oracle, from.i, from.j) < accept
            /\ similarity_ratio_getter(oracle, from.i + from.n - 1, from.j + from.m - 1) < accept
            /\ from.cost >= 2
            /\ call.n >= 0 /\ call.m >= 0
            /\ call.n * call.m < from.n * from.m
            /\ call.max_cost < from.cost
            /\ \/ IsFirstHalf(k) /\ call.max_cost = (from.cost + 1) \div 2
               \/ ~IsFirstHalf(k) /\ call.max_cost = from.cost \div 2

\* C26: search_graph_recursive terminates: every call returns, and every
\* recursive call was made after end stripping left cells below accept at both
\* corners, by fronts that met at a cost >= 2, on a sub-rectangle of strictly
\* smaller n*m, with max_cost ceil(cost/2) for the first and floor(cost/2) for
\* the second, below the cost at which the caller's fronts met.
C26_Terminates ==
    /\ [](pc = "returned" => RecursionDescends)
    /\ (pc = "start") ~> (pc = "returned")

\* a run with recursive calls that made recursive calls themselves
C26_Witness ==
    /\ pc = "returned"
    /\ Len(sub_calls) >= 4
    /\ \E k \in DOMAIN sub_calls : sub_calls[k].caller.n * sub_calls[k].caller.m < n * m
    /\ \E k \in DOMAIN sub_calls : sub_calls[k].caller.cost >= 3

\* how many times index ix of out was written to
TimesWritten(indexes, ix) == Cardinality({k \in DOMAIN indexes : indexes[k] = ix})

\* C27: with an out buffer of n + m cells and eq_only false, every index
\* 0..n+m-1 is written exactly once over the whole run and none keeps its
\* initial value; a recursive call at offset (i, j) of size (n', m') writes
\* only indexes in [i+j, i+j+n'+m').
C27_WrittenOnce ==
    (pc = "returned" /\ ~out.isNone /\ ~eq_only) =>
        /\ \A ix \in 0..(n + m - 1) :
             /\ TimesWritten(written, ix) = 1
             /\ out.codes[ix + 1] # -1
        /\ \A k \in DOMAIN written : written[k] \in 0..(n + m - 1)
        /\ \A k \in DOMAIN sub_calls :
             \A t \in DOMAIN sub_calls[k].written :
                 /\ sub_calls[k].written[t] >= sub_calls[k].i + sub_calls[k].j
                 /\ sub_calls[k].written[t] <
                        sub_calls[k].i + sub_calls[k].j + sub_calls[k].n + sub_calls[k].m

\* a run that stripped an end, wrote a snake and made recursive calls that
\* wrote their parts of the buffer
C27_Witness ==
    /\ pc = "returned" /\ ~out.isNone
    /\ exit = "met"
    /\ Len(written) = n + m
    /\ Len(sub_calls) >= 2
    /\ \E k \in DOMAIN sub_calls : Len(sub_calls[k].written) >= 2 /\ sub_calls[k].i + sub_calls[k].j > 0
    /\ \E k \in DOMAIN out.codes : out.codes[k] = 3

(***************************************************************************)
(* diff_nested and lists that hold themselves.  ValueError has one source  *)
(* in diff_nested called with eq=None: the blacklist test of the nesting   *)
(* step (accept is positive whenever eq is a pair).                        *)
(***************************************************************************)
\* the lists list id holds as items
ListsIn(h, id) ==
    {IdOf(h[id][k]) : k \in {j \in DOMAIN h[id] : h[id][j].kind = "list"}}

\* the lists found in the lists of ids, down to k more levels
RECURSIVE ListsBelow(_, _, _)
ListsBelow(h, ids, k) ==
    IF k = 0 THEN ids
    ELSE ListsBelow(h, ids \cup UNION {ListsIn(h, id) : id \in ids}, k - 1)

\* the lists list id contains, directly or transitively
ContainedIn(h, id) == ListsBelow(h, ListsIn(h, id), MaxObjects)

\* x, or a list x contains, contains itself
SelfContaining(h, x) ==
    /\ x.kind = "list"
    /\ \E id \in {IdOf(x)} \cup ContainedIn(h, IdOf(x)) : id \in ContainedIn(h, id)

\* C28: diff_nested raises the ValueError of recursive nesting only if a list of
\* the a side or a list of the b side contains itself, directly or transitively;
\* inputs without such a list raise no ValueError, whichever lists they share.
C28_RaisesOnlyIfSelfContaining ==
    (NestedDone /\ result.raised = "ValueError")
        => (SelfContaining(heap, a) \/ SelfContaining(heap, b))

\* diff_nested(a, a) on one list that holds another list twice, as siblings:
\* no list contains itself and the call returns a Diff
C28_Witness ==
    /\ NestedDone /\ max_depth > 1 /\ a = b
    /\ ~SelfContaining(heap, a)
    /\ \E j, k \in DOMAIN heap[IdOf(a)] :
         /\ j # k
         /\ heap[IdOf(a)][j].kind = "list"
         /\ heap[IdOf(a)][j] = heap[IdOf(a)][k]
    /\ result.raised = ""
    /\ ~result.isBool

(***************************************************************************)
(* Which columns common_diff_sig pairs.                                    *)
(***************************************************************************)
\* the pairs (x, y) of a column of a and a column of b that sit side by side in
\* an aligned part of the signature
PairedColumns(parts) ==
    UNION {{<<SumSizeA(parts, k - 1) + i, SumSizeB(parts, k - 1) + i>> :
                i \in 0..(parts[k].size_a - 1)} :
           k \in {c \in DOMAIN parts : parts[c].eq}}

\* C30: column x of a and column y of b are paired in an aligned part of the
\* signature of common_diff_sig only if a diff of diffs aligns x with y (cell
\* (x, y) of the prepared search space is 1 or more), at (0, 0) as elsewhere.
C30_PairedOnlyIfAligned ==
    (pc = "common" /\ col_sig.raised = "")
        => \A p \in PairedColumns(col_sig.value.parts) :
              PreparedSpace(n, m, in_row_diff)[p] >= 1

====
